---- MODULE Spec2Model ----
(***************************************************************************)
(* OncoSight: the insight reconciliation layer (lib/patient-insights.ts,   *)
(* actions/analyze-patient.ts), the dashboard components that consume it,  *)
(* and the pathology comparator of the investigations tab.                 *)
(*                                                                         *)
(* JavaScript values are modelled as follows.  A nullable string-like      *)
(* field is a record [tag, val]: tag is "undefined", "null" or "value",    *)
(* and val is the sequence of sentences of the text (<<>> is the empty     *)
(* string "").  A nullable number is a sequence: <<>> is null, <<n>> is n. *)
(* Lab numbers are kept in tenths (creatinine 1.5 is 15).                  *)
(***************************************************************************)
EXTENDS Integers, Sequences, FiniteSets, TLC

\* ------------------------------------------------------------------ bounds

\* Render tasks that ask for insights (sidebar and page of the open dashboards).
MaxCallers == 2
\* generatePatientInsights invocations per run.
MaxGens == 2

\* ------------------------------------------------------------- JS values

Undef == [tag |-> "undefined", val |-> <<>>]
Null == [tag |-> "null", val |-> <<>>]
Val(v) == [tag |-> "value", val |-> v]

\* A nullable string field is truthy, or a nullable array field is non-empty.
Truthy(x) == x.tag = "value" /\ x.val # <<>>

\* ---------------------------------------------------------------- patients

\* A patient all of whose optional data is null / empty.
NullPatient ==
  [ patientId |-> "P1",
    nPathologyDetails |-> 0,
    renalDysfunctionFlag |-> "null",
    liverDysfunctionFlag |-> "null",
    creatinine |-> <<>>, wbc |-> <<>>, anc |-> <<>>, hb |-> <<>>, platelets |-> <<>>,
    cea |-> <<>>, ca199 |-> <<>>,
    biomarkerTrend |-> <<>>,
    cbcNamesCytopenia |-> FALSE,
    abnormalLabFlagged |-> FALSE,
    pathologyDiagnosisText |-> "" ]

\* The same patient id after the source data changed: one pathology report,
\* renal dysfunction, anaemia and a rising marker.
RenalPatient ==
  [ NullPatient EXCEPT
      !.nPathologyDetails = 1,
      !.renalDysfunctionFlag = "true",
      !.creatinine = <<21>>,
      !.hb = <<92>>,
      !.cbcNamesCytopenia = TRUE,
      !.biomarkerTrend = << [markerName |-> "CEA", value |-> <<100>>],
                            [markerName |-> "CEA", value |-> <<125>>] >> ]

\* Another patient: two pathology reports, hepatic dysfunction.
HepaticPatient ==
  [ NullPatient EXCEPT
      !.patientId = "P2",
      !.nPathologyDetails = 2,
      !.renalDysfunctionFlag = "false",
      !.liverDysfunctionFlag = "true",
      !.cea = <<34>>,
      !.pathologyDiagnosisText = "Adenocarcinoma" ]

Patients == { NullPatient, RenalPatient, HepaticPatient }

PatientIds == { p.patientId : p \in Patients }

\* ------------------------------------------------------- buildLabsSummary

Statement(kind, text, parts) == [kind |-> kind, text |-> text, parts |-> parts]

\* value !== null && value < limit, on numbers kept in tenths.
Below(value, limit) == value # <<>> /\ value[1] < limit
Above(value, limit) == value # <<>> /\ value[1] > limit

renalStatement(patient) ==
  IF patient.renalDysfunctionFlag = "true" \/ Above(patient.creatinine, 15)
  THEN Statement("renal", "Renal reserve compromised; use contrast and nephrotoxic agents cautiously.", <<>>)
  ELSE Statement("renal", "Renal parameters remain acceptable for planned therapy.", <<>>)

liverStatements(patient) ==
  IF patient.liverDysfunctionFlag = "true"
  THEN << Statement("liver", "Hepatic dysfunction present; monitor metabolism-dependent drugs closely.", <<>>) >>
  ELSE <<>>

hemeIssues(patient) ==
  (IF Below(patient.wbc, 20) \/ Below(patient.anc, 10)
     THEN << "Neutropenia elevates infectious risk" >> ELSE <<>>)
  \o (IF Below(patient.hb, 100) THEN << "Anemia noted (Hb)" >> ELSE <<>>)
  \o (IF Below(patient.platelets, 750)
        THEN << "Thrombocytopenia may predispose to bleeding" >> ELSE <<>>)

hemeStatement(patient) ==
  IF hemeIssues(patient) # <<>>
  THEN Statement("heme", "issues", hemeIssues(patient))
  ELSE Statement("heme", "Hematologic indices are within acceptable limits.", <<>>)

\* percent > 0.2 and percent < -0.2 for percent = delta / prev (0 when prev = 0),
\* decided on integers.
\* The rising threshold with 20% itself counted as rising.
PercentAbove20_Inclusive(prev, latest) ==
  \/ prev > 0 /\ 5 * (latest - prev) >= prev
  \/ prev < 0 /\ 5 * (latest - prev) <= prev

PercentAbove20(prev, latest) ==
  \/ prev > 0 /\ 5 * (latest - prev) > prev
  \/ prev < 0 /\ 5 * (latest - prev) < prev
PercentBelowMinus20(prev, latest) ==
  \/ prev > 0 /\ 5 * (latest - prev) < -prev
  \/ prev < 0 /\ 5 * (latest - prev) > -prev

\* parseMarkerValue(target): the scalar column first, else the last of at least
\* two numeric trend points of that marker.
parseMarkerValue(patient, target) ==
  LET direct == IF target = "CEA" THEN patient.cea ELSE patient.ca199
      IsTarget(point) == point.markerName = target /\ point.value # <<>>
      filtered == SelectSeq(patient.biomarkerTrend, IsTarget)
  IN IF direct # <<>> THEN direct
     ELSE IF Len(filtered) >= 2 THEN filtered[Len(filtered)].value
     ELSE <<>>

trendMessage(patient) ==
  LET trendSeries == patient.biomarkerTrend
      n == Len(trendSeries)
      both == n >= 2 /\ trendSeries[n].value # <<>> /\ trendSeries[n - 1].value # <<>>
  IN IF both /\ PercentAbove20(trendSeries[n - 1].value[1], trendSeries[n].value[1])
       THEN Statement("trend", "Recently rising biomarkers suggest potential disease activity.", <<>>)
     ELSE IF both /\ PercentBelowMinus20(trendSeries[n - 1].value[1], trendSeries[n].value[1])
       THEN Statement("trend", "Down-trending biomarkers align with treatment response.", <<>>)
     ELSE IF parseMarkerValue(patient, "CEA") # <<>> \/ parseMarkerValue(patient, "CA19-9") # <<>>
       THEN Statement("trend", "Tumor markers are stable without decisive directional shifts.", <<>>)
     ELSE Statement("trend", "Tumor markers unavailable for trajectory assessment.", <<>>)

\* statements.filter(Boolean).slice(0, 3).join(" ")
buildLabsSummary(patient) ==
  LET statements == << renalStatement(patient) >> \o liverStatements(patient)
                    \o << hemeStatement(patient), trendMessage(patient) >>
  IN SubSeq(statements, 1, IF Len(statements) < 3 THEN Len(statements) ELSE 3)

\* -------------------------------------------------- buildFallbackInsights

Sidebar(origin, renal, liver, hematology) ==
  [ tag |-> "value", origin |-> origin,
    safety_flags |-> [renal |-> renal, liver |-> liver, hematology |-> hematology] ]
NoSidebar ==
  [ tag |-> "undefined", origin |-> "none",
    safety_flags |-> [renal |-> "-", liver |-> "-", hematology |-> "-"] ]

Investigations(summary, text, deltas, labs) ==
  [ tag |-> "value", pathology_summary |-> summary, pathology_comparison_text |-> text,
    pathology_deltas |-> deltas, labs_summary |-> labs ]
NoInvestigations ==
  [ tag |-> "undefined", pathology_summary |-> Undef, pathology_comparison_text |-> Undef,
    pathology_deltas |-> Undef, labs_summary |-> Undef ]

buildFallbackInsights(patient) ==
  [ sidebar |->
      Sidebar("fallback",
              IF patient.renalDysfunctionFlag = "true" THEN "Caution" ELSE "Safe",
              IF patient.liverDysfunctionFlag = "true" THEN "Caution" ELSE "Safe",
              IF patient.cbcNamesCytopenia \/ patient.abnormalLabFlagged
                THEN "Caution" ELSE "Safe"),
    charts |-> "fallback",
    tabs |-> "fallback",
    stage_summary |-> "fallback",
    investigations |->
      Investigations(
        IF patient.pathologyDiagnosisText # "" THEN Val(<< patient.pathologyDiagnosisText >>) ELSE Null,
        Null,
        Null,
        Val(buildLabsSummary(patient))) ]

\* ------------------------------------------------------ the LLM's answers

ModelSidebar == Sidebar("model", "Caution", "Safe", "Danger")

ModelDelta ==
  [marker |-> "Grade", old_value |-> "G2", new_value |-> "G3", trend |-> "worsening"]

ModelLabs == Val(<< Statement("model", "Model-written laboratory summary.", <<>>) >>)

\* JSON objects without any of the keys of MasterAIResponse, and with all of them.
EmptyObject ==
  [ sidebar |-> NoSidebar, charts |-> "undefined", tabs |-> "undefined",
    stage_summary |-> "undefined", investigations |-> NoInvestigations ]

FullObject(inv) ==
  [ sidebar |-> ModelSidebar, charts |-> "model", tabs |-> "model",
    stage_summary |-> "model", investigations |-> inv ]

FullInvestigations ==
  Investigations(Val(<< "model summary" >>), Val(<< "model comparison" >>),
                 Val(<< ModelDelta >>), ModelLabs)

ModelInvestigations ==
  { NoInvestigations,
    FullInvestigations,
    Investigations(Undef, Null, Val(<<>>), Undef),
    Investigations(Null, Val(<< "model comparison" >>), Null, Val(<<>>)),
    Investigations(Val(<< "model summary" >>), Null, Val(<< ModelDelta >>), Null) }

ParsedObjects ==
  { FullObject(inv) : inv \in ModelInvestigations }
  \cup { [FullObject(inv) EXCEPT !.sidebar = NoSidebar] : inv \in { NoInvestigations, FullInvestigations } }
  \cup { [FullObject(FullInvestigations) EXCEPT !.stage_summary = "undefined"],
         EmptyObject }

\* What `await model.generateContent(prompt)` and `JSON.parse(text)` can yield.
LLMOutcomes ==
  { [kind |-> k, parsed |-> EmptyObject] : k \in { "network_error", "invalid_text", "json_null" } }
  \cup { [kind |-> "object", parsed |-> o] : o \in ParsedObjects }

NoOutcome == [kind |-> "none", parsed |-> EmptyObject]

\* Whether gemini.getGenerativeModel(...), which is called outside the try
\* block, returns or throws.
ConstructOutcomes == { "ok", "throws" }

\* ----------------------------------------------- generatePatientInsights

RequiredKeysPresent(o) ==
  /\ o.sidebar.tag = "value"
  /\ o.charts # "undefined"
  /\ o.tabs # "undefined"
  /\ o.stage_summary # "undefined"

\* The backfill overwriting whatever labs summary the model supplied.
ReconcileParsed_Overwrite(parsed, patient) ==
  LET inv1 == IF parsed.investigations.tag # "value"
                THEN Investigations(Null, Null, Null, Null)
                ELSE parsed.investigations
  IN [parsed EXCEPT !.investigations =
        [inv1 EXCEPT !.labs_summary = Val(buildLabsSummary(patient))]]

\* Lines 311-322: the investigations block is created when missing and the
\* labs summary is filled in when falsy; the object is returned otherwise as is.
ReconcileParsed(parsed, patient) ==
  LET inv1 == IF parsed.investigations.tag # "value"
                THEN Investigations(Null, Null, Null, Null)
                ELSE parsed.investigations
      inv2 == IF ~Truthy(inv1.labs_summary)
                THEN [inv1 EXCEPT !.labs_summary = Val(buildLabsSummary(patient))]
                ELSE inv1
  IN [parsed EXCEPT !.investigations = inv2]

\* The body of the try / catch once generateContent has settled.
SettleGeneration(patient, outcome) ==
  IF outcome.kind = "object"
  THEN [source |-> "model", result |-> ReconcileParsed(outcome.parsed, patient)]
  ELSE [source |-> "fallback", result |-> buildFallbackInsights(patient)]

\* ------------------------------------------------------------------ state

VARIABLES
  insightPromises,  \* the module-level Map: patient id -> index of its promise, 0 when absent
  gens,             \* the generatePatientInsights invocations, in order of creation
  pc,               \* per render task: "idle", "awaiting", "rendered", "crashed"
  awaited,          \* per render task: the promise getPatientInsights returned to it
  asked,            \* per render task: the patient id it asked about
  view,             \* per render task: what it rendered
  pvIn,             \* PathologyView: its props (patient pathology data, aiInsights deltas)
  pvOut,            \* PathologyView: what one render computed
  csv,              \* data-service: the rows Papa.parse reads from the CSV file
  loaded,           \* data-service: the outcome of the latest loadPatients()
  consulted,        \* dashboard of one patient: getPatientById's result and what is shown for it
  summaryCall,      \* POST /api/clinical-summary: the request, the model's answer, the response
  shortcuts,        \* DashboardTabsClient: tab state, pending key sequence, its timer
  pdf,              \* usePDFGenerator: isGenerating, what the last render saw, the invocations
  inspector         \* PatientInspector: selection, insights shown, analyzePatient requests

insightVars == << insightPromises, gens, pc, awaited, asked, view >>
pathologyVars == << pvIn, pvOut >>
dataVars == << csv, loaded, consulted >>
clientVars == << summaryCall, shortcuts, pdf, inspector >>
otherThanSummary == << insightVars, pathologyVars, dataVars, shortcuts, pdf, inspector >>
otherThanShortcuts == << insightVars, pathologyVars, dataVars, summaryCall, pdf, inspector >>
otherThanPdf == << insightVars, pathologyVars, dataVars, summaryCall, shortcuts, inspector >>
otherThanInspector == << insightVars, pathologyVars, dataVars, summaryCall, shortcuts, pdf >>
vars == << insightVars, pathologyVars, dataVars, clientVars >>

Callers == 1 .. MaxCallers
Component(c) == IF c % 2 = 1 THEN "sidebar" ELSE "page"

NullSidebar == [NoSidebar EXCEPT !.tag = "null"]
NoView ==
  [ aiInsights |-> [tag |-> "null", payload |-> EmptyObject],
    insights |-> NullSidebar,
    error |-> "" ]

\* No PathologyView is mounted.
NoPvIn ==
  [ details |-> <<>>, tumorGrade |-> "", marginStatus |-> "", ihcMarkers |-> <<>>,
    fallbackDiagnosis |-> "", aiDeltas |-> Null ]
NoPvOut ==
  [ phase |-> "unmounted", reports |-> <<>>, structuralDeltas |-> <<>>, shown |-> <<>>,
    comparison |-> <<>> ]

InsightInit ==
  /\ insightPromises = [id \in PatientIds |-> 0]
  /\ gens = <<>>
  /\ pc = [c \in Callers |-> "idle"]
  /\ awaited = [c \in Callers |-> 0]
  /\ asked = [c \in Callers |-> ""]
  /\ view = [c \in Callers |-> NoView]

\* No patient has been looked up.
NoPatient == [ patientId |-> <<>> ]
NotLoaded == [ status |-> "none", patients |-> <<>> ]
NotConsulted ==
  [ status |-> "none", id |-> <<>>, patient |-> NoPatient,
    insights |-> Null, organFlags |-> Null ]

\* No request for a clinical summary has arrived.
LlmNotCalled == [kind |-> "none", fields |-> <<>>]
ERROR_BODY == [ error |-> "Patient payload required" ]
NoSummaryCall == [ pc |-> "idle", llm |-> LlmNotCalled, status |-> 0, body |-> [error |-> ""] ]

\* DashboardTabsClient has handled no event yet.
NoEvent == [kind |-> "none", key |-> "", before |-> <<>>, fired |-> <<>>]

\* The component after mounting: mainTab and investigationsPanel are React
\* state, sequence and timeout the locals of the keydown effect.
Mounted ==
  [ mainTab |-> "patient", investigationsPanel |-> "pathology",
    sequence |-> <<>>, timeout |-> FALSE, dispatched |-> "", lastEvent |-> NoEvent ]

\* usePDFGenerator after the first render.
NoPdf == [ isGenerating |-> FALSE, rendered |-> FALSE, fetches |-> 0, saved |-> 0,
           invocations |-> <<>> ]

\* PatientInspector before its first render; insights "" is null.
NoInspector ==
  [ mounted |-> FALSE, selectedId |-> "", insights |-> "", error |-> FALSE,
    requests |-> <<>> ]

NoClient ==
  /\ summaryCall = NoSummaryCall
  /\ shortcuts = Mounted
  /\ pdf = NoPdf
  /\ inspector = NoInspector

NoData ==
  /\ csv = <<>>
  /\ loaded = NotLoaded
  /\ consulted = NotConsulted

Init ==
  /\ InsightInit
  /\ pvIn = NoPvIn
  /\ pvOut = NoPvOut
  /\ NoData
  /\ NoClient

\* ----------------------------------------------------- getPatientInsights

\* generatePatientInsights(patient) up to its first await: the client is built
\* (a throw here rejects the returned promise at once), the prompt is built and
\* the one generateContent request is issued.  `st` is the promise that
\* getPatientInsights derives with .catch and stores in the map.
NewGeneration(patient, construct) ==
  [ patient |-> patient,
    gen |-> IF construct = "ok" THEN "awaiting" ELSE "rejected",
    st |-> "pending",
    source |-> "none",
    outcome |-> NoOutcome,
    result |-> EmptyObject,
    llmRequests |-> IF construct = "ok" THEN 1 ELSE 0 ]

ReturnExisting(c, patient) ==
  /\ awaited' = [awaited EXCEPT ![c] = insightPromises[patient.patientId]]
  /\ UNCHANGED << insightPromises, gens >>

StartGeneration(c, patient) ==
  /\ Len(gens) < MaxGens
  /\ \E construct \in ConstructOutcomes :
       gens' = Append(gens, NewGeneration(patient, construct))
  /\ insightPromises' = [insightPromises EXCEPT ![patient.patientId] = Len(gens) + 1]
  /\ awaited' = [awaited EXCEPT ![c] = Len(gens) + 1]

\* getPatientInsights without the lookup of an existing entry.
getPatientInsights_NoLookup(c, patient) == StartGeneration(c, patient)

getPatientInsights(c, patient) ==
  IF insightPromises[patient.patientId] # 0
  THEN ReturnExisting(c, patient)
  ELSE StartGeneration(c, patient)

\* A sidebar or page render reaches `await getPatientInsights(patient)`.
Call(c) ==
  /\ pc[c] = "idle"
  /\ \E patient \in Patients :
       /\ getPatientInsights(c, patient)
       /\ asked' = [asked EXCEPT ![c] = patient.patientId]
  /\ pc' = [pc EXCEPT ![c] = "awaiting"]
  /\ UNCHANGED << view, pathologyVars, dataVars, clientVars >>

\* generatePatientInsights with a retry: a failed request is issued again.
LLMRespond_Retry(g) ==
  /\ g \in 1 .. Len(gens)
  /\ gens[g].gen = "awaiting"
  /\ \E outcome \in LLMOutcomes :
       LET settled == SettleGeneration(gens[g].patient, outcome)
       IN IF outcome.kind = "network_error" /\ gens[g].llmRequests < 2
          THEN gens' = [gens EXCEPT ![g].llmRequests = @ + 1]
          ELSE gens' = [gens EXCEPT ![g].gen = "resolved",
                                    ![g].source = settled.source,
                                    ![g].outcome = outcome,
                                    ![g].result = settled.result]
  /\ UNCHANGED << insightPromises, pc, awaited, asked, view, pathologyVars, dataVars, clientVars >>

\* generateContent settles and the rest of generatePatientInsights runs.
LLMRespond(g) ==
  /\ g \in 1 .. Len(gens)
  /\ gens[g].gen = "awaiting"
  /\ \E outcome \in LLMOutcomes :
       LET settled == SettleGeneration(gens[g].patient, outcome)
       IN gens' = [gens EXCEPT ![g].gen = "resolved",
                               ![g].source = settled.source,
                               ![g].outcome = outcome,
                               ![g].result = settled.result]
  /\ UNCHANGED << insightPromises, pc, awaited, asked, view, pathologyVars, dataVars, clientVars >>

\* The derived promise without the eviction in its .catch handler.
SettleDerived_NoEvict(g) ==
  /\ g \in 1 .. Len(gens)
  /\ gens[g].st = "pending"
  /\ gens[g].gen # "awaiting"
  /\ gens' = [gens EXCEPT ![g].st = IF gens[g].gen = "rejected" THEN "rejected" ELSE "resolved"]
  /\ UNCHANGED << insightPromises, pc, awaited, asked, view, pathologyVars, dataVars, clientVars >>

\* The derived promise with the eviction on fulfilment as well as on rejection.
SettleDerived_EvictAlways(g) ==
  /\ g \in 1 .. Len(gens)
  /\ gens[g].st = "pending"
  /\ gens[g].gen # "awaiting"
  /\ insightPromises' = [insightPromises EXCEPT ![gens[g].patient.patientId] = 0]
  /\ gens' = [gens EXCEPT ![g].st = IF gens[g].gen = "rejected" THEN "rejected" ELSE "resolved"]
  /\ UNCHANGED << pc, awaited, asked, view, pathologyVars, dataVars, clientVars >>

\* The reaction of the derived promise: a rejection runs the .catch handler,
\* which deletes the map entry of the patient id and rethrows; a fulfilment
\* passes through.
SettleDerived(g) ==
  /\ g \in 1 .. Len(gens)
  /\ gens[g].st = "pending"
  /\ gens[g].gen # "awaiting"
  /\ IF gens[g].gen = "rejected"
     THEN /\ insightPromises' = [insightPromises EXCEPT ![gens[g].patient.patientId] = 0]
          /\ gens' = [gens EXCEPT ![g].st = "rejected"]
     ELSE /\ gens' = [gens EXCEPT ![g].st = "resolved"]
          /\ UNCHANGED insightPromises
  /\ UNCHANGED << pc, awaited, asked, view, pathologyVars, dataVars, clientVars >>

\* ------------------------------------------------- dashboard components

\* SidebarIntelligence after its await: payload.sidebar, or the error notice.
SidebarContinue(c) ==
  LET p == gens[awaited[c]]
  IN /\ view' = [view EXCEPT ![c] =
                   IF p.st = "resolved"
                   THEN [NoView EXCEPT !.insights = p.result.sidebar]
                   ELSE [NoView EXCEPT !.error = "Unable to load AI insights. Please retry."]]
     /\ pc' = [pc EXCEPT ![c] = "rendered"]

\* DashboardPage without its try / catch: the rejection escapes the page.
PageContinue_NoCatch(c) ==
  LET p == gens[awaited[c]]
  IN IF p.st = "resolved"
     THEN /\ view' = [view EXCEPT ![c] = [NoView EXCEPT !.aiInsights = [tag |-> "value", payload |-> p.result]]]
          /\ pc' = [pc EXCEPT ![c] = "rendered"]
     ELSE /\ pc' = [pc EXCEPT ![c] = "crashed"]
          /\ UNCHANGED view

\* DashboardPage after its await: aiInsights stays null when the call failed.
PageContinue(c) ==
  LET p == gens[awaited[c]]
  IN /\ view' = [view EXCEPT ![c] =
                   IF p.st = "resolved"
                   THEN [NoView EXCEPT !.aiInsights = [tag |-> "value", payload |-> p.result]]
                   ELSE NoView]
     /\ pc' = [pc EXCEPT ![c] = "rendered"]

Render(c) ==
  /\ pc[c] = "awaiting"
  /\ gens[awaited[c]].st # "pending"
  /\ IF Component(c) = "sidebar" THEN SidebarContinue(c) ELSE PageContinue(c)
  /\ UNCHANGED << insightPromises, gens, awaited, asked, pathologyVars, dataVars, clientVars >>

\* ----------------------------------------------------- pathology-view.tsx

\* Structured pathology reports per patient.
MaxDetails == 2

\* A JavaScript object with string keys is a sequence of << key, value >> pairs
\* in insertion order; a missing key reads as undefined, modelled as "".
HasKey(obj, k) == \E i \in 1 .. Len(obj) : obj[i][1] = k
Lookup(obj, k) ==
  IF HasKey(obj, k) THEN obj[CHOOSE i \in 1 .. Len(obj) : obj[i][1] = k][2] ELSE ""
PutKey(obj, k, v) ==
  IF HasKey(obj, k)
  THEN [i \in 1 .. Len(obj) |-> IF obj[i][1] = k THEN << k, v >> ELSE obj[i]]
  ELSE Append(obj, << k, v >>)
RECURSIVE PutAll(_, _)
PutAll(obj, pairs) ==
  IF pairs = <<>> THEN obj
  ELSE PutAll(PutKey(obj, Head(pairs)[1], Head(pairs)[2]), Tail(pairs))
ObjectKeys(obj) == [i \in 1 .. Len(obj) |-> obj[i][1]]
Take(seq, n) == SubSeq(seq, 1, IF Len(seq) < n THEN Len(seq) ELSE n)

\* normalizeIhcPanel: the truthy readings of the panel, else the tokens of the
\* patient's IHC column that have both a marker and a reading.
normalizeIhcPanel(panel, fallback) ==
  LET normalized == PutAll(<<>>, SelectSeq(panel, LAMBDA pr : pr[2] # ""))
  IN IF normalized = <<>> /\ fallback # <<>>
     THEN PutAll(<<>>, SelectSeq(fallback, LAMBDA pr : pr[1] # "" /\ pr[2] # ""))
     ELSE normalized

\* Date.parse on the dates that occur, in days since the epoch.
DateParse(rawDate) ==
  CASE rawDate = "2023-01-01" -> 19358
    [] rawDate = "2023-06-01" -> 19509

\* Date.parse gives NaN for a text that is no date.
DateIsNaN(rawDate) == rawDate = "pending"

SortKey(report) == IF report.rawDate # "" THEN DateParse(report.rawDate) ELSE 0
SortKeyIsNaN(report) == report.rawDate # "" /\ DateIsNaN(report.rawDate)

\* The comparator (a, b) => db - da as Array.prototype.sort sees it: a NaN
\* result counts as 0.
CompareReports(a, b) ==
  IF SortKeyIsNaN(a) \/ SortKeyIsNaN(b) THEN 0 ELSE SortKey(b) - SortKey(a)

Reverse(seq) == [i \in 1 .. Len(seq) |-> seq[Len(seq) + 1 - i]]

\* Array.prototype.sort of the engine for arrays shorter than 64 elements:
\* the leading run is found (a strictly descending one is reversed) and the
\* remaining elements are placed by binary insertion.
RECURSIVE ExtendRun(_, _, _)
ExtendRun(arr, idx, isDescending) ==
  IF idx > Len(arr) THEN Len(arr)
  ELSE LET order == CompareReports(arr[idx], arr[idx - 1])
       IN IF (isDescending /\ order >= 0) \/ (~isDescending /\ order < 0)
          THEN idx - 1
          ELSE ExtendRun(arr, idx + 1, isDescending)

CountAndMakeRun(arr) ==
  LET isDescending == CompareReports(arr[2], arr[1]) < 0
      runLength == ExtendRun(arr, 3, isDescending)
  IN [ runLength |-> runLength,
       arr |-> IF isDescending
               THEN Reverse(SubSeq(arr, 1, runLength)) \o SubSeq(arr, runLength + 1, Len(arr))
               ELSE arr ]

RECURSIVE BinarySearch(_, _, _, _)
BinarySearch(arr, pivot, left, right) ==
  IF left >= right THEN left
  ELSE LET mid == left + ((right - left) \div 2)
       IN IF CompareReports(pivot, arr[mid + 1]) < 0
          THEN BinarySearch(arr, pivot, left, mid)
          ELSE BinarySearch(arr, pivot, mid + 1, right)

RECURSIVE BinaryInsertionSort(_, _)
BinaryInsertionSort(arr, start) ==
  IF start >= Len(arr) THEN arr
  ELSE LET pivot == arr[start + 1]
           left == BinarySearch(arr, pivot, 0, start)
       IN BinaryInsertionSort(
            SubSeq(arr, 1, left) \o << pivot >> \o SubSeq(arr, left + 1, start)
              \o SubSeq(arr, start + 2, Len(arr)),
            start + 1)

\* [...reports].sort((a, b) => db - da)
sortReports(reports) ==
  IF Len(reports) < 2 THEN reports
  ELSE LET made == CountAndMakeRun(reports)
       IN BinaryInsertionSort(made.arr, made.runLength)

\* One entry of patient.pathologyDetails as a NormalizedReport (the fields the
\* comparison reads); pickValue already chose the first truthy alias.
normalizeEntry(entry, patient) ==
  [ rawDate |-> entry.date,
    grade |-> IF entry.grade # "" THEN entry.grade ELSE patient.tumorGrade,
    tumorSize |-> entry.tumor_size,
    margins |-> IF entry.margins # "" THEN entry.margins ELSE patient.marginStatus,
    lvi |-> entry.lvi,
    pni |-> entry.pni,
    lymphNodes |-> entry.lymph_nodes,
    ihcPanel |-> normalizeIhcPanel(entry.ihcPanel, patient.ihcMarkers) ]

\* The single undated report synthesised when there is no structured report.
PlaceholderReport(patient) ==
  [ rawDate |-> "",
    grade |-> IF patient.fallbackDiagnosis # "" THEN patient.tumorGrade ELSE "",
    tumorSize |-> "",
    margins |-> IF patient.fallbackDiagnosis # "" THEN patient.marginStatus ELSE "",
    lvi |-> "", pni |-> "", lymphNodes |-> "",
    ihcPanel |-> normalizeIhcPanel(<<>>, patient.ihcMarkers) ]

normalizeReports(patient) ==
  IF patient.details # <<>>
  THEN sortReports([i \in 1 .. Len(patient.details) |-> normalizeEntry(patient.details[i], patient)])
  ELSE << PlaceholderReport(patient) >>

\* gradeSeverity on the grades that occur: /g\s*([1-4])/i, then the
\* poor|high, mod, well|low keywords; null (<<>>) otherwise.
gradeSeverity(grade) ==
  CASE grade \in { "G1", "g1", "well differentiated", "low grade" } -> << 1 >>
    [] grade \in { "G2", "g2", "moderately differentiated" } -> << 2 >>
    [] grade \in { "G3", "g3", "poorly differentiated", "high grade" } -> << 3 >>
    [] OTHER -> <<>>

\* numberFromString on the sizes that occur, in tenths.
numberFromString(value) ==
  CASE value = "12 mm" -> << 120 >>
    [] value = "20 mm" -> << 200 >>
    [] value = "12.0 mm" -> << 120 >>
    [] value = "2.5 cm" -> << 25 >>
    [] OTHER -> <<>>

\* /pos|involved|positive/i on the margin wordings that occur.
marginPositive(value) == value \in { "positive", "involved", "not involved" }

\* /present|positive|involved/i on the invasion and nodal wordings that occur.
invasionPresent(value) == value \in { "present", "not present", "N1 positive", "involved" }

PathologyDelta(marker, old, new, trend) ==
  [marker |-> marker, old_value |-> old, new_value |-> new, trend |-> trend]
OrElse(value, placeholder) == IF value # "" THEN value ELSE placeholder

gradeDelta(latest, previous) ==
  LET l == gradeSeverity(latest.grade)
      p == gradeSeverity(previous.grade)
      trend == IF l # <<>> /\ p # <<>> /\ l[1] < p[1] THEN "improving"
               ELSE IF l # <<>> /\ p # <<>> /\ l[1] > p[1] THEN "worsening"
               ELSE "stable"
  IN IF (latest.grade # "" \/ previous.grade # "") /\ latest.grade # previous.grade
     THEN << PathologyDelta("Grade", OrElse(previous.grade, "Not graded"),
                            OrElse(latest.grade, "Not graded"), trend) >>
     ELSE <<>>

sizeDelta(latest, previous) ==
  LET l == numberFromString(latest.tumorSize)
      p == numberFromString(previous.tumorSize)
      trend == IF l # <<>> /\ p # <<>> /\ l[1] < p[1] THEN "improving"
               ELSE IF l # <<>> /\ p # <<>> /\ l[1] > p[1] THEN "worsening"
               ELSE "stable"
  IN IF (latest.tumorSize # "" \/ previous.tumorSize # "") /\ latest.tumorSize # previous.tumorSize
     THEN << PathologyDelta("Tumor size", OrElse(previous.tumorSize, "Not measured"),
                            OrElse(latest.tumorSize, "Not measured"), trend) >>
     ELSE <<>>

marginsDelta(latest, previous) ==
  LET wasPositive == marginPositive(previous.margins)
      isPositive == marginPositive(latest.margins)
      trend == IF ~isPositive /\ wasPositive THEN "improving"
               ELSE IF isPositive /\ ~wasPositive THEN "worsening"
               ELSE "stable"
  IN IF (latest.margins # "" \/ previous.margins # "") /\ latest.margins # previous.margins
     THEN << PathologyDelta("Margins", OrElse(previous.margins, "Not assessed"),
                            OrElse(latest.margins, "Not assessed"), trend) >>
     ELSE <<>>

invasionDelta(label, latest, previous) ==
  IF latest = previous \/ (latest = "" /\ previous = "") THEN <<>>
  ELSE << PathologyDelta(label, OrElse(previous, "Not documented"),
                         OrElse(latest, "Not documented"),
                         IF invasionPresent(latest) THEN "worsening"
                         ELSE IF invasionPresent(previous) THEN "improving"
                         ELSE "stable") >>

\* The markers of { ...previous.ihcPanel, ...latest.ihcPanel } the comparison
\* looks at: the first six keys.
IhcMarkersCompared(latest, previous) ==
  Take(ObjectKeys(PutAll(previous.ihcPanel, latest.ihcPanel)), 6)

RECURSIVE ihcDeltas(_, _, _)
ihcDeltas(markers, latest, previous) ==
  IF markers = <<>> THEN <<>>
  ELSE LET marker == Head(markers)
           oldValue == Lookup(previous.ihcPanel, marker)
           newValue == Lookup(latest.ihcPanel, marker)
           here == IF oldValue = newValue \/ (oldValue = "" /\ newValue = "") THEN <<>>
                   ELSE << PathologyDelta("IHC / " \o marker,
                                          OrElse(oldValue, "Not reported"),
                                          OrElse(newValue, "Not reported"),
                                          IF oldValue = "" THEN "new"
                                          ELSE IF newValue = "" THEN "improving"
                                          ELSE "stable") >>
       IN here \o ihcDeltas(Tail(markers), latest, previous)

\* A comparator that forgets the nodal status.
generateStructuralDeltas_NoNodes(latest, previous) ==
  gradeDelta(latest, previous)
  \o sizeDelta(latest, previous)
  \o marginsDelta(latest, previous)
  \o invasionDelta("Lymphovascular invasion", latest.lvi, previous.lvi)
  \o invasionDelta("Perineural invasion", latest.pni, previous.pni)
  \o ihcDeltas(IhcMarkersCompared(latest, previous), latest, previous)

generateStructuralDeltas(latest, previous) ==
  gradeDelta(latest, previous)
  \o sizeDelta(latest, previous)
  \o marginsDelta(latest, previous)
  \o invasionDelta("Lymphovascular invasion", latest.lvi, previous.lvi)
  \o invasionDelta("Perineural invasion", latest.pni, previous.pni)
  \o invasionDelta("Nodal status", latest.lymphNodes, previous.lymphNodes)
  \o ihcDeltas(IhcMarkersCompared(latest, previous), latest, previous)

\* describeShift: the clause about one field, none when nothing is to be said.
describeShift(label, previous, latest) ==
  IF previous = "" /\ latest = "" THEN <<>>
  ELSE IF previous = "" THEN << [label |-> label, shift |-> "newly reported", was |-> "", now |-> latest] >>
  ELSE IF latest = "" THEN << [label |-> label, shift |-> "no longer documented", was |-> previous, now |-> ""] >>
  ELSE IF previous = latest THEN <<>>
  ELSE << [label |-> label, shift |-> "changed", was |-> previous, now |-> latest] >>

\* buildComparisonInsight: the clauses of the locally written comparison
\* narrative, in their order (the histology type and the IHC clause are not
\* part of the reports modelled here).
buildComparisonInsight(latest, previous) ==
  describeShift("Grade", previous.grade, latest.grade)
  \o describeShift("Margins", previous.margins, latest.margins)
  \o describeShift("Tumor size", previous.tumorSize, latest.tumorSize)
  \o describeShift("LVI", previous.lvi, latest.lvi)
  \o describeShift("PNI", previous.pni, latest.pni)

\* One render of PathologyView: the sorted reports, the deltas of the model
\* when it supplied any, else the locally generated ones, and the rows shown.
\* The render with the whole delta list in the table.
PathologyRender_NoSlice ==
  /\ pvOut.phase = "mounted"
  /\ LET reports == normalizeReports(pvIn)
         hasMultipleReports == Len(reports) > 1
         aiDeltas == IF hasMultipleReports /\ pvIn.aiDeltas.tag = "value"
                     THEN pvIn.aiDeltas.val ELSE <<>>
         structuralDeltas ==
           IF ~hasMultipleReports THEN <<>>
           ELSE IF aiDeltas # <<>> THEN aiDeltas
           ELSE generateStructuralDeltas(reports[1], reports[2])
     IN pvOut' = [ phase |-> "rendered", reports |-> reports,
                   structuralDeltas |-> structuralDeltas,
                   shown |-> structuralDeltas,
                   comparison |-> IF hasMultipleReports
                                  THEN buildComparisonInsight(reports[1], reports[2])
                                  ELSE <<>> ]
  /\ UNCHANGED << pvIn, insightVars, dataVars, clientVars >>

PathologyRender ==
  /\ pvOut.phase = "mounted"
  /\ LET reports == normalizeReports(pvIn)
         hasMultipleReports == Len(reports) > 1
         aiDeltas == IF hasMultipleReports /\ pvIn.aiDeltas.tag = "value"
                     THEN pvIn.aiDeltas.val ELSE <<>>
         structuralDeltas ==
           IF ~hasMultipleReports THEN <<>>
           ELSE IF aiDeltas # <<>> THEN aiDeltas
           ELSE generateStructuralDeltas(reports[1], reports[2])
     IN pvOut' = [ phase |-> "rendered", reports |-> reports,
                   structuralDeltas |-> structuralDeltas,
                   shown |-> Take(structuralDeltas, 5),
                   comparison |-> IF hasMultipleReports
                                  THEN buildComparisonInsight(reports[1], reports[2])
                                  ELSE <<>> ]
  /\ UNCHANGED << pvIn, insightVars, dataVars, clientVars >>

\* The pathology data the view is mounted with.
BaseEntry ==
  [ date |-> "", grade |-> "G2", tumor_size |-> "12 mm", margins |-> "negative",
    lvi |-> "absent", pni |-> "absent", lymph_nodes |-> "N0",
    ihcPanel |-> << << "ER", "positive" >>, << "PR", "negative" >> >> ]

SevenMarkers ==
  << << "ER", "positive" >>, << "PR", "negative" >>, << "HER2", "1+" >>,
     << "Ki-67", "20%" >>, << "p53", "wild type" >>, << "CK7", "positive" >>,
     << "TTF-1", "negative" >> >>

EntryBodies ==
  { BaseEntry,
    [BaseEntry EXCEPT !.grade = "G3"],
    [BaseEntry EXCEPT !.margins = "positive"],
    [BaseEntry EXCEPT !.lymph_nodes = "N1 positive"],
    [BaseEntry EXCEPT !.ihcPanel = SevenMarkers],
    [BaseEntry EXCEPT !.ihcPanel = PutKey(SevenMarkers, "TTF-1", "positive")],
    [BaseEntry EXCEPT !.grade = "", !.tumor_size = "", !.margins = "", !.lvi = "",
                      !.pni = "", !.lymph_nodes = "", !.ihcPanel = <<>>] }

EntryDates == { "", "2023-06-01" }

\* Reports worded differently from the others: another spelling of the same
\* grade and size, negated involvement, and invasion present.
WordingBodies ==
  { [BaseEntry EXCEPT !.grade = "g2", !.tumor_size = "12.0 mm"],
    [BaseEntry EXCEPT !.margins = "not involved", !.lvi = "not present"],
    [BaseEntry EXCEPT !.lvi = "present"] }

\* A report of January graded "Grade 2" with negative margins and one of June
\* graded "Grade 3" with positive margins.
ScenarioEntries ==
  { [BaseEntry EXCEPT !.date = "2023-01-01", !.grade = "Grade 2"],
    [BaseEntry EXCEPT !.date = "2023-06-01", !.grade = "Grade 3", !.margins = "positive"] }

\* A report whose date column holds a text that is no date.
UndatableEntries == { [BaseEntry EXCEPT !.date = "pending", !.grade = "G3"] }

Entries ==
  { [body EXCEPT !.date = d] : body \in EntryBodies \cup WordingBodies, d \in EntryDates }
  \cup ScenarioEntries
  \cup UndatableEntries

RECURSIVE SeqsUpTo(_, _)
SeqsUpTo(S, n) ==
  IF n = 0 THEN { <<>> }
  ELSE LET shorter == SeqsUpTo(S, n - 1)
       IN shorter \cup { Append(q, x) : q \in shorter, x \in S }

PatientColumns ==
  { [tumorGrade |-> "", marginStatus |-> "", ihcMarkers |-> <<>>, fallbackDiagnosis |-> ""],
    [tumorGrade |-> "G2", marginStatus |-> "negative",
     ihcMarkers |-> << << "ER", "positive" >> >>, fallbackDiagnosis |-> "Adenocarcinoma"] }

\* pathology_deltas of the model: none, one delta, or six of them.
AiDeltaProps == { Null, Val(<< ModelDelta >>), Val([i \in 1 .. 6 |-> ModelDelta]) }

PathologyInit ==
  /\ InsightInit
  /\ \E details \in SeqsUpTo(Entries, MaxDetails), cols \in PatientColumns, ai \in AiDeltaProps :
       pvIn = [ details |-> details, tumorGrade |-> cols.tumorGrade,
                marginStatus |-> cols.marginStatus, ihcMarkers |-> cols.ihcMarkers,
                fallbackDiagnosis |-> cols.fallbackDiagnosis, aiDeltas |-> ai ]
  /\ pvOut = [NoPvOut EXCEPT !.phase = "mounted"]
  /\ NoData
  /\ NoClient

PathologyNext == PathologyRender

PathologySpec == PathologyInit /\ [][PathologyNext]_vars

\* ------------------------------------------------------------ data-service

\* Rows in the CSV file.
MaxRows == 2

\* A cell text is the sequence of its characters; row[key] is Undef when the
\* row has no such column, else Val(text).
RECURSIVE TrimStart(_)
TrimStart(text) ==
  IF text # <<>> /\ Head(text) = " " THEN TrimStart(Tail(text)) ELSE text
RECURSIVE TrimEnd(_)
TrimEnd(text) ==
  IF text # <<>> /\ text[Len(text)] = " "
  THEN TrimEnd(SubSeq(text, 1, Len(text) - 1))
  ELSE text
trim(text) == TrimEnd(TrimStart(text))

UpperLetters ==
  << "A", "B", "C", "D", "E", "F", "G", "H", "I", "J", "K", "L", "M",
     "N", "O", "P", "Q", "R", "S", "T", "U", "V", "W", "X", "Y", "Z" >>
LowerLetters ==
  << "a", "b", "c", "d", "e", "f", "g", "h", "i", "j", "k", "l", "m",
     "n", "o", "p", "q", "r", "s", "t", "u", "v", "w", "x", "y", "z" >>
toLowerCaseChar(c) ==
  IF \E k \in 1 .. Len(UpperLetters) : UpperLetters[k] = c
  THEN LowerLetters[CHOOSE k \in 1 .. Len(UpperLetters) : UpperLetters[k] = c]
  ELSE c
toLowerCaseText(text) == [i \in 1 .. Len(text) |-> toLowerCaseChar(text[i])]
startsWith(text, prefix) ==
  Len(text) >= Len(prefix) /\ SubSeq(text, 1, Len(prefix)) = prefix

\* !value for a cell: the column is missing or the text is empty.
Falsy(cell) == cell.tag # "value" \/ cell.val = <<>>

toBoolean(cell) ==
  IF Falsy(cell) THEN "null"
  ELSE LET normalized == toLowerCaseText(trim(cell.val))
       IN IF \/ startsWith(normalized, << "y", "e", "s" >>)
             \/ normalized = << "y" >>
             \/ normalized = << "t", "r", "u", "e" >>
          THEN "true"
          ELSE IF \/ startsWith(normalized, << "n", "o" >>)
                  \/ normalized = << "n" >>
                  \/ normalized = << "f", "a", "l", "s", "e" >>
          THEN "false"
          ELSE "null"

sanitize(cell) == IF Falsy(cell) THEN <<>> ELSE trim(cell.val)

\* a ?? b ?? ... over the cells of the spellings of a column: the first cell
\* that is neither undefined nor null, else undefined.
RECURSIVE Coalesce(_)
Coalesce(cells) ==
  IF cells = <<>> THEN Undef
  ELSE IF Head(cells).tag = "value" THEN Head(cells)
  ELSE Coalesce(Tail(cells))

Text_NA == << "n", "/", "a" >>

parseBsa(cell) ==
  IF Falsy(cell) THEN Null
  ELSE LET trimmed == trim(cell.val)
       IN IF trimmed = <<>> \/ toLowerCaseText(trimmed) = Text_NA THEN Null
          ELSE Val(trimmed)

parseBmi(cell) ==
  IF Falsy(cell) THEN Null
  ELSE LET trimmed == trim(cell.val)
       IN IF trimmed = <<>> \/ toLowerCaseText(trimmed) = Text_NA THEN Null
          ELSE Val(trimmed)

\* The cell of an embedded JSON column, by what JSON.parse makes of it: the
\* column is missing, the text is blank, the text is no JSON, or the parsed
\* value (an array with its items, or something else).
JsonAbsent == [kind |-> "absent", t |-> "none", items |-> <<>>]
JsonBlank == [kind |-> "blank", t |-> "none", items |-> <<>>]
JsonInvalid == [kind |-> "invalid", t |-> "none", items |-> <<>>]
JsonArray(items) == [kind |-> "json", t |-> "array", items |-> items]
JsonObject == [kind |-> "json", t |-> "object", items |-> <<>>]
JsonNumber == [kind |-> "json", t |-> "number", items |-> <<>>]

\* An item of such an array: an object with the properties the mappers read,
\* null, or a number.
ItemObject(date, name, value) ==
  [t |-> "object", date |-> date, marker_name |-> name, value |-> value]
ItemNull == [t |-> "null", date |-> "", marker_name |-> "", value |-> <<>>]
ItemNumber == [t |-> "number", date |-> "", marker_name |-> "", value |-> <<>>]

parseJsonArray(cell) ==
  IF cell.kind = "json" /\ cell.t = "array" THEN cell.items ELSE <<>>

\* item.prop on an item: reading a property of null throws a TypeError.
Throws(items) == \E i \in 1 .. Len(items) : items[i].t = "null"

Returned(value) == [threw |-> FALSE, value |-> value]
Threw == [threw |-> TRUE, value |-> <<>>]

mapTimelineEvents(cell) ==
  LET items == parseJsonArray(cell)
  IN IF Throws(items) THEN Threw
     ELSE Returned([i \in 1 .. Len(items) |-> [startDate |-> items[i].date]])

mapBiomarkerPoints(cell) ==
  LET items == parseJsonArray(cell)
  IN IF Throws(items) THEN Threw
     ELSE Returned([i \in 1 .. Len(items) |->
                      [ date |-> items[i].date,
                        markerName |-> items[i].marker_name,
                        value |-> items[i].value ]])

\* parsePathologyDetails: a parsed value that is no array is wrapped in one;
\* only the items that are objects are kept.
parsePathologyDetails(cell) ==
  LET entries == IF cell.kind # "json" THEN <<>>
                 ELSE IF cell.t = "array" THEN cell.items
                 ELSE << [ItemNull EXCEPT !.t = cell.t] >>
      kept == SelectSeq(entries, LAMBDA entry : entry.t = "object")
  IN [i \in 1 .. Len(kept) |-> [date |-> kept[i].date]]

\* The object literal of mapRowToPatient is evaluated top to bottom; a mapper
\* that throws ends it.  The lab cells are kept as the numbers extractNumber
\* finds in them.
mapRowToPatient(row) ==
  LET rawBsa == Coalesce(row.bsaCells)
      rawBmi == Coalesce(row.bmiCells)
      treatmentTimeline == mapTimelineEvents(row.timelineCell)
      biomarkerTrend == mapBiomarkerPoints(row.biomarkerCell)
      pathologyDetails == parsePathologyDetails(row.pathologyCell)
  IN IF treatmentTimeline.threw \/ biomarkerTrend.threw THEN Threw
     ELSE Returned(
       [ patientId |-> sanitize(row.idCell),
         name |-> sanitize(row.nameCell),
         bmi |-> parseBmi(rawBmi),
         bsa |-> parseBsa(rawBsa),
         renalDysfunctionFlag |-> toBoolean(row.renalCell),
         liverDysfunctionFlag |-> toBoolean(row.liverCell),
         pathologyDiagnosisText |-> "",
         creatinine |-> <<>>, wbc |-> <<>>, anc |-> <<>>, hb |-> <<>>, platelets |-> <<>>,
         cbcNamesCytopenia |-> FALSE,
         abnormalLabFlagged |-> FALSE,
         cea |-> row.cea,
         ca199 |-> <<>>,
         treatmentTimeline |-> treatmentTimeline.value,
         biomarkerTrend |-> biomarkerTrend.value,
         pathologyDetails |-> pathologyDetails,
         nPathologyDetails |-> Len(pathologyDetails) ])

\* A row Papa.parse delivered counts when one of its cells is not blank.
RowHasContent(row) ==
  \/ \E cell \in { row.idCell, row.nameCell, row.renalCell, row.liverCell } :
       ~Falsy(cell) /\ trim(cell.val) # <<>>
  \/ \E k \in 1 .. Len(row.bsaCells) :
       ~Falsy(row.bsaCells[k]) /\ trim(row.bsaCells[k].val) # <<>>
  \/ \E k \in 1 .. Len(row.bmiCells) :
       ~Falsy(row.bmiCells[k]) /\ trim(row.bmiCells[k].val) # <<>>
  \/ \E cell \in { row.timelineCell, row.biomarkerCell, row.pathologyCell } :
       cell.kind \in { "invalid", "json" }
  \/ row.cea # <<>>

loadPatients(rows) ==
  LET kept == SelectSeq(rows, RowHasContent)
      mapped == [i \in 1 .. Len(kept) |-> mapRowToPatient(kept[i])]
  IN IF \E i \in 1 .. Len(mapped) : mapped[i].threw
     THEN [status |-> "threw", patients |-> <<>>]
     ELSE [status |-> "ok", patients |-> [i \in 1 .. Len(mapped) |-> mapped[i].value]]

\* A page other than the dashboard lists the patients.
LoadPatients ==
  /\ loaded' = loadPatients(csv)
  /\ UNCHANGED << csv, consulted, insightVars, pathologyVars, clientVars >>

\* getPatientById loads the file again and returns the first patient with
\* that id, or null.
GetPatientById(id) ==
  /\ consulted.status = "none"
  /\ LET outcome == loadPatients(csv)
         hits == SelectSeq(outcome.patients, LAMBDA p : p.patientId = id)
     IN /\ loaded' = outcome
        /\ consulted' =
             IF outcome.status = "threw" THEN [NotConsulted EXCEPT !.status = "threw", !.id = id]
             ELSE IF hits = <<>> THEN [NotConsulted EXCEPT !.status = "null", !.id = id]
             ELSE [NotConsulted EXCEPT !.status = "found", !.id = id, !.patient = hits[1]]
  /\ UNCHANGED << csv, insightVars, pathologyVars, clientVars >>

\* generatePatientInsights for the patient found, when the model call fails.
FallbackInsights ==
  /\ consulted.status = "found"
  /\ consulted.insights = Null
  /\ consulted' = [consulted EXCEPT !.insights = Val(buildFallbackInsights(consulted.patient))]
  /\ UNCHANGED << csv, loaded, insightVars, pathologyVars, clientVars >>

\* getOrganFlag of the context tab.
getOrganFlag(flag) == IF flag = "true" THEN "Dysfunction" ELSE "Safe"

ContextTabRender ==
  /\ consulted.status = "found"
  /\ consulted.organFlags = Null
  /\ consulted' = [consulted EXCEPT !.organFlags =
                     Val([ renal |-> getOrganFlag(consulted.patient.renalDysfunctionFlag),
                           liver |-> getOrganFlag(consulted.patient.liverDysfunctionFlag) ])]
  /\ UNCHANGED << csv, loaded, insightVars, pathologyVars, clientVars >>

\* The rows of the file.
Text_P1 == << "P", "1" >>
Text_P2 == << "P", "2" >>
Text_Ann == << "A", "n", "n" >>
Text_Bob == << "B", "o", "b" >>

\* bsaCells holds the cells of the columns bsa, BSA, Body Surface Area (BSA),
\* the same with a leading blank, and Body surface area (BSA); bmiCells those
\* of bmi, BMI and Body Mass Index (BMI).
BaseRow ==
  [ idCell |-> Val(Text_P1), nameCell |-> Val(Text_Ann),
    bsaCells |-> << Undef, Undef, Undef, Undef, Undef >>,
    bmiCells |-> << Undef, Undef, Undef >>,
    renalCell |-> Val(<<>>), liverCell |-> Val(<<>>),
    timelineCell |-> JsonBlank, biomarkerCell |-> JsonBlank, pathologyCell |-> JsonBlank,
    cea |-> <<>> ]

Point(name, value) == ItemObject("", name, value)

\* Rows with a biomarker series: +25%, +20%, +10%, -30%, +25% followed by a
\* point without a numeric value, and +10% of a marker other than CEA and
\* CA19-9.
BiomarkerRows ==
  { [BaseRow EXCEPT !.biomarkerCell = JsonArray(series)] :
      series \in { << Point("CEA", <<100>>), Point("CEA", <<125>>) >>,
                   << Point("CEA", <<100>>), Point("CEA", <<120>>) >>,
                   << Point("CEA", <<100>>), Point("CEA", <<110>>) >>,
                   << Point("CEA", <<100>>), Point("CEA", <<70>>) >>,
                   << Point("CEA", <<100>>), Point("CEA", <<125>>), Point("CEA", <<>>) >>,
                   << Point("LDH", <<100>>), Point("LDH", <<110>>) >> } }

\* Rows with dysfunction flags: the accepted tokens in several spellings, words
\* that begin with "no" or "yes", an unrecognised word and a missing column.
FlagRows ==
  { [BaseRow EXCEPT !.renalCell = Val(<< "Y", "e", "s" >>),
                    !.liverCell = Val(<< "N", "o" >>)],
    [BaseRow EXCEPT !.renalCell = Val(<< " ", "y", " " >>),
                    !.liverCell = Val(<< "N" >>)],
    [BaseRow EXCEPT !.renalCell = Val(<< "T", "R", "U", "E" >>),
                    !.liverCell = Val(<< "f", "a", "l", "s", "e" >>)],
    [BaseRow EXCEPT !.renalCell = Val(<< "N", "o", "n", "e" >>),
                    !.liverCell = Val(<< "U", "n", "k", "n", "o", "w", "n" >>)],
    [BaseRow EXCEPT !.renalCell = Val(<< "N", "o", "t", " ", "d", "o", "c", "u", "m", "e", "n", "t", "e", "d" >>),
                    !.liverCell = Val(<< "n", "o", "r", "m", "a", "l" >>)],
    [BaseRow EXCEPT !.renalCell = Undef,
                    !.liverCell = Val(<< "Y", "e", "s", "t", "e", "r", "d", "a", "y" >>)],
    [BaseRow EXCEPT !.renalCell = Val(<< "N", "o" >>),
                    !.liverCell = Val(<< "Y", "e", "s" >>)] }

\* Rows whose embedded JSON columns are no JSON, hold JSON that is no array,
\* or hold arrays with null or non-object items.
JsonRows ==
  { [BaseRow EXCEPT !.timelineCell = JsonInvalid, !.biomarkerCell = JsonInvalid,
                    !.pathologyCell = JsonInvalid],
    [BaseRow EXCEPT !.timelineCell = JsonObject, !.biomarkerCell = JsonNumber,
                    !.pathologyCell = JsonObject],
    [BaseRow EXCEPT !.timelineCell = JsonArray(<< ItemNull >>)],
    [BaseRow EXCEPT !.timelineCell = JsonArray(<< ItemNumber >>),
                    !.pathologyCell = JsonArray(<< ItemNull, ItemObject("2023-06-01", "", <<>>),
                                                   ItemNumber >>)] }

\* Rows about the identifier: none, the one of another row, another one, and
\* a row of blanks only.
IdRows ==
  { [BaseRow EXCEPT !.idCell = Val(<<>>), !.nameCell = Val(Text_Bob)],
    [BaseRow EXCEPT !.nameCell = Val(Text_Bob), !.cea = <<34>>],
    [BaseRow EXCEPT !.idCell = Val(Text_P2)],
    [BaseRow EXCEPT !.idCell = Undef, !.nameCell = Val(<< " " >>)] }

Text_1_8 == << "1", ".", "8" >>
Text_24 == << "2", "4" >>

\* Rows of files with several spellings of the BSA and BMI columns: the first
\* spelling filled, the first blank and a later one filled, the first column
\* missing, and the first holding n/a.
AliasRows ==
  { [BaseRow EXCEPT !.bsaCells = << Val(Text_1_8), Val(Text_24), Undef, Undef, Undef >>,
                    !.bmiCells = << Val(Text_24), Val(<<>>), Undef >>],
    [BaseRow EXCEPT !.bsaCells = << Val(<<>>), Val(Text_1_8), Undef, Undef, Undef >>,
                    !.bmiCells = << Val(<<>>), Val(<<>>), Val(Text_24) >>],
    [BaseRow EXCEPT !.bsaCells = << Undef, Undef, Val(Text_1_8), Undef, Undef >>,
                    !.bmiCells = << Undef, Val(Text_24), Undef >>],
    [BaseRow EXCEPT !.bsaCells = << Val(<< "N", "/", "A" >>), Val(Text_1_8), Undef, Undef, Undef >>] }

CsvRows ==
  { BaseRow } \cup BiomarkerRows \cup FlagRows \cup JsonRows \cup IdRows \cup AliasRows

LookupIds == { Text_P1, Text_P2 }

DataInit ==
  /\ InsightInit
  /\ pvIn = NoPvIn
  /\ pvOut = NoPvOut
  /\ csv \in SeqsUpTo(CsvRows, MaxRows)
  /\ loaded = NotLoaded
  /\ consulted = NotConsulted
  /\ NoClient

DataNext ==
  \/ LoadPatients
  \/ \E id \in LookupIds : GetPatientById(id)
  \/ FallbackInsights
  \/ ContextTabRender

DataSpec == DataInit /\ [][DataNext]_vars

\* ------------------------------------------------------- clinical summary

\* A JSON value as JavaScript sees a property of the parsed answer: t is
\* "missing" (undefined), "null", "string", "number", "object" or "array";
\* text is the string (a sequence of sentences or blanks), items the array.
JsMissing == [t |-> "missing", text |-> <<>>, items |-> <<>>]
JsNull == [t |-> "null", text |-> <<>>, items |-> <<>>]
JsString(text) == [t |-> "string", text |-> text, items |-> <<>>]
JsNumber == [t |-> "number", text |-> <<>>, items |-> <<>>]
JsObject == [t |-> "object", text |-> <<>>, items |-> <<>>]
JsArray(items) == [t |-> "array", text |-> <<>>, items |-> items]

FALLBACK_SUMMARY ==
  [ clinical_narrative |->
      << "Summary unavailable. Clinical data insufficient for narrative synthesis at this time." >>,
    status_one_liner |-> << "Disease status not documented." >>,
    key_risks |-> << "Data unavailable" >>,
    recommendations |-> << "Review patient chart manually" >> ]

\* value?.trim(): undefined for undefined and null, the trimmed text for a
\* string, a TypeError for anything else (it has no trim method).
OptionalTrim(value) ==
  IF value.t \in { "missing", "null" } THEN [threw |-> FALSE, defined |-> FALSE, text |-> <<>>]
  ELSE IF value.t = "string" THEN [threw |-> FALSE, defined |-> TRUE, text |-> trim(value.text)]
  ELSE [threw |-> TRUE, defined |-> FALSE, text |-> <<>>]

\* trimmed || fallback
OrFallback(trimmed, fallback) ==
  IF trimmed.defined /\ trimmed.text # <<>> THEN trimmed.text ELSE fallback

\* Array.isArray(value) && value.length ? value : []
ArrayOrEmpty(value) == IF value.t = "array" /\ value.items # <<>> THEN value.items ELSE <<>>

\* What the model call gives: it throws, its text is no JSON, or the text
\* parses to null, to a number, or to an object with these properties.
LlmThrows == [kind |-> "throws", fields |-> <<>>]
LlmUnparsable == [kind |-> "unparsable", fields |-> <<>>]
LlmJsonNull == [kind |-> "null", fields |-> <<>>]
LlmJsonNumber == [kind |-> "number", fields |-> <<>>]
LlmJsonObject(narrative, oneLiner, risks, recommendations) ==
  [ kind |-> "object",
    fields |-> << narrative, oneLiner, risks, recommendations >> ]

\* parsed.<property>: undefined on a number; on null it is a TypeError,
\* which the caller handles.
ParsedField(answer, k) == IF answer.kind = "object" THEN answer.fields[k] ELSE JsMissing

\* The summary without the fallback texts for empty strings.
generateClinicalSummary_NoDefault(answer) ==
  IF answer.kind \in { "throws", "unparsable", "null" } THEN FALLBACK_SUMMARY
  ELSE LET narrative == OptionalTrim(ParsedField(answer, 1))
           oneLiner == OptionalTrim(ParsedField(answer, 2))
       IN IF narrative.threw \/ oneLiner.threw THEN FALLBACK_SUMMARY
          ELSE [ clinical_narrative |-> narrative.text,
                 status_one_liner |-> oneLiner.text,
                 key_risks |-> ArrayOrEmpty(ParsedField(answer, 3)),
                 recommendations |-> ArrayOrEmpty(ParsedField(answer, 4)) ]

\* generateClinicalSummary from the model's answer on: everything thrown in
\* the try block (by the call, by JSON.parse, by a property read of null, by
\* trim on a value that is no string) ends in the catch block.
generateClinicalSummary(answer) ==
  IF answer.kind \in { "throws", "unparsable", "null" } THEN FALLBACK_SUMMARY
  ELSE LET narrative == OptionalTrim(ParsedField(answer, 1))
           oneLiner == OptionalTrim(ParsedField(answer, 2))
       IN IF narrative.threw \/ oneLiner.threw THEN FALLBACK_SUMMARY
          ELSE [ clinical_narrative |->
                   OrFallback(narrative, FALLBACK_SUMMARY.clinical_narrative),
                 status_one_liner |->
                   OrFallback(oneLiner, FALLBACK_SUMMARY.status_one_liner),
                 key_risks |-> ArrayOrEmpty(ParsedField(answer, 3)),
                 recommendations |-> ArrayOrEmpty(ParsedField(answer, 4)) ]

SERVICE_ERROR_SUMMARY ==
  [ clinical_narrative |-> << "Summary unavailable due to service error." >>,
    status_one_liner |-> << "Disease status unavailable." >>,
    key_risks |-> <<>>,
    recommendations |-> <<>> ]

\* POST up to the model call: a body that is no JSON is answered with 500
\* and the service-error summary, a body without patient with 400.
PostSummary(request) ==
  /\ summaryCall.pc = "idle"
  /\ summaryCall' =
       IF request = "invalid"
       THEN [pc |-> "done", llm |-> LlmNotCalled, status |-> 500, body |-> SERVICE_ERROR_SUMMARY]
       ELSE IF request = "no patient"
       THEN [pc |-> "done", llm |-> LlmNotCalled, status |-> 400, body |-> ERROR_BODY]
       ELSE [summaryCall EXCEPT !.pc = "calling"]
  /\ UNCHANGED otherThanSummary

\* The model call settles; POST answers with the summary.
SummaryAnswer(answer) ==
  /\ summaryCall.pc = "calling"
  /\ summaryCall' = [pc |-> "done", llm |-> answer, status |-> 200,
                     body |-> generateClinicalSummary(answer)]
  /\ UNCHANGED otherThanSummary

SummaryRequests == { "invalid", "no patient", "patient" }

Text_SD == << "Stable disease." >>
Text_Blank == << " ", " " >>

NarrativeValues ==
  { JsMissing, JsNull, JsString(<<>>), JsString(Text_Blank), JsString(Text_SD),
    JsString(<< " ", "Stable disease.", " " >>), JsNumber, JsObject, JsArray(<<>>) }
OneLinerValues == { JsMissing, JsString(Text_Blank), JsString(Text_SD), JsNumber }
ListValues ==
  { JsMissing, JsNull, JsString(Text_SD), JsObject, JsArray(<<>>),
    JsArray(<< "Rising CEA" >>) }

LlmAnswers ==
  { LlmThrows, LlmUnparsable, LlmJsonNull, LlmJsonNumber } \cup
  { LlmJsonObject(n, o, k, r) :
      n \in NarrativeValues, o \in OneLinerValues, k \in ListValues, r \in ListValues }

SummaryInit ==
  /\ InsightInit
  /\ pvIn = NoPvIn
  /\ pvOut = NoPvOut
  /\ NoData
  /\ NoClient

SummaryNext ==
  \/ \E request \in SummaryRequests : PostSummary(request)
  \/ \E answer \in LlmAnswers : SummaryAnswer(answer)

SummarySpec == SummaryInit /\ [][SummaryNext]_vars

\* ----------------------------------------------------- keyboard shortcuts

\* The shortcut table: keys, and what the handler does (the main tab and the
\* investigations panel it sets, the window event it dispatches).
Shortcut(keys, main, panel, action) ==
  [keys |-> keys, main |-> main, panel |-> panel, action |-> action]

\* The table with the handlers of o-i and o-r exchanged.
SHORTCUTS_Swapped ==
  << Shortcut(<< "o", "p" >>, "patient", "", ""),
     Shortcut(<< "o", "d" >>, "diagnosis", "", ""),
     Shortcut(<< "o", "i" >>, "investigations", "radiology", ""),
     Shortcut(<< "o", "r" >>, "investigations", "pathology", ""),
     Shortcut(<< "o", "l" >>, "investigations", "laboratory", ""),
     Shortcut(<< "o", "e" >>, "", "", "export"),
     Shortcut(<< "o", "b" >>, "", "", "back") >>

SHORTCUTS ==
  << Shortcut(<< "o", "p" >>, "patient", "", ""),
     Shortcut(<< "o", "d" >>, "diagnosis", "", ""),
     Shortcut(<< "o", "i" >>, "investigations", "pathology", ""),
     Shortcut(<< "o", "r" >>, "investigations", "radiology", ""),
     Shortcut(<< "o", "l" >>, "investigations", "laboratory", ""),
     Shortcut(<< "o", "e" >>, "", "", "export"),
     Shortcut(<< "o", "b" >>, "", "", "back") >>

\* keys.slice(0, n).every((key, index) => key === sequence[index]); an index
\* past the end of sequence reads undefined.
SlicePrefixMatches(keys, sequence) ==
  \A index \in 1 .. (IF Len(sequence) < Len(keys) THEN Len(sequence) ELSE Len(keys)) :
    keys[index] = sequence[index]

hasPrefix(sequence) ==
  \E k \in 1 .. Len(SHORTCUTS) : SlicePrefixMatches(SHORTCUTS[k].keys, sequence)

\* find: the first shortcut whose keys are the sequence; 0 for undefined.
resolveShortcut(sequence) ==
  LET hits == { k \in 1 .. Len(SHORTCUTS) : SHORTCUTS[k].keys = sequence }
  IN IF hits = {} THEN 0 ELSE CHOOSE k \in hits : \A other \in hits : k <= other

\* event.key.toLowerCase() for the keys modelled.
toLowerCaseKey(key) ==
  IF key = "O" THEN "o" ELSE IF key = "R" THEN "r" ELSE IF key = "Shift" THEN "shift" ELSE key

\* The latest event the component handled and the pending sequence it found:
\* a key press or the 750 ms timer.
KeyEvent(key, before, fired) ==
  [kind |-> "key", key |-> key, before |-> before, fired |-> fired]
TimeoutEvent(before) == [kind |-> "timeout", key |-> "", before |-> before, fired |-> <<>>]

\* match.handler(setMainTab, setInvestigationsPanel)
RunHandler(state, shortcut) ==
  [state EXCEPT !.mainTab = IF shortcut.main # "" THEN shortcut.main ELSE @,
                !.investigationsPanel = IF shortcut.panel # "" THEN shortcut.panel ELSE @,
                !.dispatched = IF shortcut.action # "" THEN shortcut.action ELSE @]

\* resetSequence
resetSequence(state) == [state EXCEPT !.sequence = <<>>, !.timeout = FALSE]

\* The timer callback that leaves the sequence as it is.
TimeoutFires_NoReset ==
  /\ shortcuts.timeout
  /\ shortcuts' = [shortcuts EXCEPT !.timeout = FALSE,
                                    !.lastEvent = TimeoutEvent(shortcuts.sequence)]
  /\ UNCHANGED otherThanShortcuts

\* handleKeyDown for one keydown event.  An event that is repeated, part of
\* a composition or without key returns at once.
handleKeyDown(event) ==
  /\ shortcuts' =
       IF event.isComposing \/ event.repeat THEN shortcuts
       ELSE LET key == toLowerCaseKey(event.key)
                pushed == Append(shortcuts.sequence, key)
                match == resolveShortcut(pushed)
            IN IF key = "" THEN shortcuts
               ELSE IF shortcuts.sequence = <<>> /\ key # "o"
               THEN [shortcuts EXCEPT !.lastEvent = KeyEvent(key, shortcuts.sequence, <<>>)]
               ELSE IF ~hasPrefix(pushed)
               THEN [resetSequence(shortcuts) EXCEPT
                       !.lastEvent = KeyEvent(key, shortcuts.sequence, <<>>)]
               ELSE IF match # 0
               THEN [resetSequence(RunHandler(shortcuts, SHORTCUTS[match])) EXCEPT
                       !.lastEvent = KeyEvent(key, shortcuts.sequence, pushed)]
               ELSE [shortcuts EXCEPT
                       !.sequence = pushed, !.timeout = TRUE,
                       !.lastEvent = KeyEvent(key, shortcuts.sequence, <<>>)]
  /\ UNCHANGED otherThanShortcuts

\* The timer set by handleKeyDown runs resetSequence when its 750 ms have
\* passed without a key that cleared it.
TimeoutFires ==
  /\ shortcuts.timeout
  /\ shortcuts' = [resetSequence(shortcuts) EXCEPT
                     !.lastEvent = TimeoutEvent(shortcuts.sequence)]
  /\ UNCHANGED otherThanShortcuts

\* Tabs.Root onValueChange: a click on a tab trigger.
SelectTab(tab) ==
  /\ shortcuts' = [shortcuts EXCEPT !.mainTab = tab]
  /\ UNCHANGED otherThanShortcuts

\* onPanelChange of the investigations tab.
SelectPanel(panel) ==
  /\ shortcuts.mainTab = "investigations"
  /\ shortcuts' = [shortcuts EXCEPT !.investigationsPanel = panel]
  /\ UNCHANGED otherThanShortcuts

MainTabs == { "patient", "diagnosis", "investigations", "references" }
InvestigationsPanels == { "pathology", "radiology", "laboratory" }

EventKeys == { "o", "O", "p", "d", "i", "r", "R", "l", "e", "b", "x", "Shift", "" }
KeyboardEvents ==
  { [key |-> key, repeat |-> FALSE, isComposing |-> FALSE] : key \in EventKeys } \cup
  { [key |-> key, repeat |-> TRUE, isComposing |-> FALSE] : key \in { "o", "p" } } \cup
  { [key |-> key, repeat |-> FALSE, isComposing |-> TRUE] : key \in { "o", "p" } }

KeyboardInit ==
  /\ InsightInit
  /\ pvIn = NoPvIn
  /\ pvOut = NoPvOut
  /\ NoData
  /\ NoClient

KeyboardNext ==
  \/ \E event \in KeyboardEvents : handleKeyDown(event)
  \/ TimeoutFires
  \/ \E tab \in MainTabs : SelectTab(tab)
  \/ \E panel \in InvestigationsPanels : SelectPanel(panel)

KeyboardSpec == KeyboardInit /\ [][KeyboardNext]_vars

\* ------------------------------------------------------------- PDF export

\* generatePDF invocations per run.
MaxInvocations == 3

\* fetch("/api/clinical-summary") as generatePDF sees it: the response is
\* OK with a JSON body, OK with a body that is no JSON, not OK, or the fetch
\* rejects.
FetchOutcomes == { "ok", "ok, body unreadable", "not ok", "rejects" }
\* Building and saving the document (jsPDF, autoTable, doc.save) returns or
\* throws.
BuildOutcomes == { "saved", "throws" }

\* An invocation: the value of isGenerating its closure captured, where it
\* stands, and the summary it printed.
Invocation(captured, at, summary) == [captured |-> captured, at |-> at, summary |-> summary]

\* generatePDF up to its first await.  The function invoked is the one of
\* the latest render, whose closure holds that render's isGenerating.
generatePDF ==
  /\ Len(pdf.invocations) < MaxInvocations
  /\ pdf' =
       IF pdf.rendered
       THEN [pdf EXCEPT !.invocations = Append(@, Invocation(TRUE, "returned", "none"))]
       ELSE [pdf EXCEPT !.isGenerating = TRUE,
                        !.fetches = @ + 1,
                        !.invocations = Append(@, Invocation(FALSE, "fetching", "none"))]
  /\ UNCHANGED otherThanPdf

\* React renders the component again after a state update: the button and
\* the next generatePDF see the new isGenerating.
Rerender ==
  /\ pdf.rendered # pdf.isGenerating
  /\ pdf' = [pdf EXCEPT !.rendered = pdf.isGenerating]
  /\ UNCHANGED otherThanPdf

\* The rest of generatePDF once the fetch has settled: the summary is the
\* response body or the default one, the document is built and saved, and
\* isGenerating is set back; an exception from the build ends the invocation
\* before that.
FetchSettles(i, fetched, built) ==
  /\ i \in 1 .. Len(pdf.invocations)
  /\ pdf.invocations[i].at = "fetching"
  /\ LET summary == IF fetched = "ok" THEN "from server" ELSE "default"
     IN pdf' =
          IF built = "throws"
          THEN [pdf EXCEPT !.invocations[i] = Invocation(FALSE, "rejected", summary)]
          ELSE [pdf EXCEPT !.isGenerating = FALSE,
                           !.saved = @ + 1,
                           !.invocations[i] = Invocation(FALSE, "finished", summary)]
  /\ UNCHANGED otherThanPdf

PdfInit ==
  /\ InsightInit
  /\ pvIn = NoPvIn
  /\ pvOut = NoPvOut
  /\ NoData
  /\ NoClient

PdfNext ==
  \/ generatePDF
  \/ Rerender
  \/ \E i \in 1 .. MaxInvocations, fetched \in FetchOutcomes, built \in BuildOutcomes :
       FetchSettles(i, fetched, built)

PdfSpec == PdfInit /\ [][PdfNext]_vars

\* React renders after a state update, and the fetch settles (the browser
\* answers or fails it); how the fetch and the build end is up to them.
PdfFairSpec ==
  /\ PdfSpec
  /\ WF_vars(Rerender)
  /\ WF_vars(\E i \in 1 .. MaxInvocations, fetched \in FetchOutcomes, built \in BuildOutcomes :
               FetchSettles(i, fetched, built))

\* ------------------------------------------------------- PatientInspector

\* analyzePatient requests per run.
MaxRequests == 3

\* fetchInsights started for a patient: `await analyzePatient(target)` is
\* pending until the server action answers.
Request(target, at) == [target |-> target, at |-> at]

\* fetchInsights up to its await.
StartFetch(state, target) ==
  [state EXCEPT !.requests = Append(@, Request(target, "pending"))]

\* The first render and its effect: the first patient is selected, insights
\* and error are null, and the analysis of that patient is requested.
MountInspector ==
  /\ ~inspector.mounted
  /\ \E first \in PatientIds :
       inspector' = StartFetch([NoInspector EXCEPT !.mounted = TRUE, !.selectedId = first], first)
  /\ UNCHANGED otherThanInspector

\* onChange of the select, the render it causes and the effect on the new
\* patient: insights and error are cleared and the analysis is requested.
SelectPatient(id) ==
  /\ inspector.mounted
  /\ id # inspector.selectedId
  /\ Len(inspector.requests) < MaxRequests
  /\ inspector' = StartFetch([inspector EXCEPT !.selectedId = id, !.insights = "", !.error = FALSE], id)
  /\ UNCHANGED otherThanInspector

\* handleGenerateInsights: the button requests the analysis of the selected
\* patient again.
handleGenerateInsights ==
  /\ inspector.mounted
  /\ Len(inspector.requests) < MaxRequests
  /\ inspector' = StartFetch(inspector, inspector.selectedId)
  /\ UNCHANGED otherThanInspector

\* The rest of fetchInsights when analyzePatient settles: the result (about
\* the target of the request) becomes the insights, or the error is set.
AnalyzeSettles(i, outcome) ==
  /\ i \in 1 .. Len(inspector.requests)
  /\ inspector.requests[i].at = "pending"
  /\ inspector' =
       IF outcome = "resolves"
       THEN [inspector EXCEPT !.requests[i].at = "resolved",
                              !.insights = inspector.requests[i].target,
                              !.error = FALSE]
       ELSE [inspector EXCEPT !.requests[i].at = "rejected", !.error = TRUE]
  /\ UNCHANGED otherThanInspector

AnalyzeOutcomes == { "resolves", "rejects" }

InspectorInit ==
  /\ InsightInit
  /\ pvIn = NoPvIn
  /\ pvOut = NoPvOut
  /\ NoData
  /\ NoClient

InspectorNext ==
  \/ MountInspector
  \/ \E id \in PatientIds : SelectPatient(id)
  \/ handleGenerateInsights
  \/ \E i \in 1 .. MaxRequests, outcome \in AnalyzeOutcomes : AnalyzeSettles(i, outcome)

InspectorSpec == InspectorInit /\ [][InspectorNext]_vars

Next ==
  \/ \E c \in Callers : Call(c)
  \/ \E g \in 1 .. MaxGens : LLMRespond(g)
  \/ \E g \in 1 .. MaxGens : SettleDerived(g)
  \/ \E c \in Callers : Render(c)

Spec == Init /\ [][Next]_vars

\* The program's own steps are taken when enabled (promise reactions are
\* microtasks, renders resume once their promise settled); the LLM service is
\* the environment and may never answer.
FairSpec ==
  /\ Spec
  /\ WF_vars(\E g \in 1 .. MaxGens : SettleDerived(g))
  /\ WF_vars(\E c \in Callers : Render(c))

\* ================================================================ claims

IdOf(g) == gens[g].patient.patientId
GenIds == 1 .. Len(gens)

\* C1: while the promise of a patient id is pending, every caller for that id
\* awaits that one promise, and no second generation is in flight for the id.
C1_OneGenerationPerPendingId ==
  /\ \A g1, g2 \in GenIds :
       (IdOf(g1) = IdOf(g2) /\ gens[g1].st = "pending" /\ gens[g2].st = "pending") => g1 = g2
  /\ \A c1, c2 \in Callers :
       ( /\ pc[c1] = "awaiting" /\ pc[c2] = "awaiting"
         /\ asked[c1] = asked[c2]
         /\ gens[awaited[c1]].st = "pending"
         /\ gens[awaited[c2]].st = "pending" ) => awaited[c1] = awaited[c2]
  /\ \A c \in Callers :
       (pc[c] = "awaiting" /\ gens[awaited[c]].st = "pending")
          => insightPromises[asked[c]] = awaited[c]

C1_Witness ==
  /\ Len(gens) = 1
  /\ gens[1].st = "pending"
  /\ \E c1, c2 \in Callers :
       c1 # c2 /\ pc[c1] = "awaiting" /\ pc[c2] = "awaiting"
       /\ awaited[c1] = 1 /\ awaited[c2] = 1

\* C2: a rejected promise is never kept in the map nor handed to a later
\* caller (the later call starts a new generation), and the eviction leaves
\* the entries of the other patient ids as they were.
C2_RejectedEntryEvicted ==
  /\ [](\A id \in PatientIds :
          insightPromises[id] # 0 => gens[insightPromises[id]].st # "rejected")
  /\ [][ /\ \A c \in Callers :
              (pc[c] = "idle" /\ pc'[c] = "awaiting")
                 => gens'[awaited'[c]].st # "rejected"
         /\ \A g \in GenIds :
              (gens[g].st = "pending" /\ gens'[g].st = "rejected")
                 => \A id \in PatientIds \ { IdOf(g) } :
                       insightPromises'[id] = insightPromises[id] ]_vars

C2_Witness ==
  \E g1, g2 \in GenIds :
    /\ g1 < g2
    /\ IdOf(g1) = IdOf(g2)
    /\ gens[g1].st = "rejected"
    /\ insightPromises[IdOf(g2)] = g2
    /\ \E c \in Callers : pc[c] = "awaiting" /\ awaited[c] = g2

C4_TimeoutResolves ==
  /\ \A g \in 1 .. MaxGens :
       (Len(gens) >= g /\ gens[g].gen = "awaiting")
          ~> (Len(gens) >= g /\ gens[g].gen # "awaiting")
  /\ [][\A g \in GenIds : gens[g].gen # "awaiting" => gens'[g].result = gens[g].result]_vars

FullyShaped(r) ==
  /\ RequiredKeysPresent(r)
  /\ \A organ \in { "renal", "liver", "hematology" } :
       r.sidebar.safety_flags[organ] \in { "Safe", "Caution", "Danger" }
  /\ r.investigations.tag = "value"

\* C5: no promise of getPatientInsights rejects, and every result is a fully
\* shaped MasterAIResponse.
C5_NeverFailsFullyShaped ==
  \A g \in GenIds :
    /\ gens[g].st # "rejected"
    /\ gens[g].gen = "resolved" => FullyShaped(gens[g].result)

\* C6: a parsed object that lacks a required top-level key yields the
\* deterministic fallback.
C6_MissingKeysFallBack ==
  \A g \in GenIds :
    ( /\ gens[g].gen = "resolved"
      /\ gens[g].outcome.kind = "object"
      /\ ~RequiredKeysPresent(gens[g].outcome.parsed) )
    => /\ gens[g].source = "fallback"
       /\ gens[g].result = buildFallbackInsights(gens[g].patient)

C6_Witness ==
  \E g \in GenIds :
    /\ gens[g].gen = "resolved"
    /\ gens[g].outcome.kind = "object"
    /\ ~RequiredKeysPresent(gens[g].outcome.parsed)

\* C7: for a validly shaped model object the result is that object, with the
\* labs summary computed locally exactly when the model's is absent or empty;
\* the fields the model returned are unchanged (an investigations block the
\* model did not return is created with null pathology fields).
C7_BackfillOnlyLabsSummary ==
  \A g \in GenIds :
    ( /\ gens[g].gen = "resolved"
      /\ gens[g].outcome.kind = "object"
      /\ RequiredKeysPresent(gens[g].outcome.parsed) )
    => LET o == gens[g].outcome.parsed
           r == gens[g].result
       IN /\ r.sidebar = o.sidebar
          /\ r.charts = o.charts
          /\ r.tabs = o.tabs
          /\ r.stage_summary = o.stage_summary
          /\ r.investigations.tag = "value"
          /\ \A f \in { "pathology_summary", "pathology_comparison_text", "pathology_deltas" } :
               r.investigations[f] =
                 IF o.investigations.tag = "value" THEN o.investigations[f] ELSE Null
          /\ r.investigations.labs_summary =
               IF Truthy(o.investigations.labs_summary)
               THEN o.investigations.labs_summary
               ELSE Val(buildLabsSummary(gens[g].patient))

C7_Witness ==
  \E g1, g2 \in GenIds :
    /\ gens[g1].gen = "resolved" /\ gens[g1].outcome.kind = "object"
    /\ RequiredKeysPresent(gens[g1].outcome.parsed)
    /\ gens[g1].outcome.parsed.investigations.tag = "value"
    /\ ~Truthy(gens[g1].outcome.parsed.investigations.labs_summary)
    /\ Truthy(gens[g1].outcome.parsed.investigations.pathology_deltas)
    /\ gens[g1].result.investigations.labs_summary = Val(buildLabsSummary(gens[g1].patient))
    /\ gens[g2].gen = "resolved" /\ gens[g2].outcome.kind = "object"
    /\ gens[g2].result.investigations.labs_summary = ModelLabs

\* C8: a render whose insight promise rejected still completes: the page with
\* aiInsights = null, the sidebar with its error notice and no insights; no
\* render ends as a page error.
C8_RendersWithoutInsights ==
  \A c \in Callers :
    /\ pc[c] # "crashed"
    /\ (pc[c] = "rendered" /\ gens[awaited[c]].st = "rejected") =>
         IF Component(c) = "page"
         THEN view[c].aiInsights.tag = "null"
         ELSE /\ view[c].error = "Unable to load AI insights. Please retry."
              /\ view[c].insights.tag = "null"

C8_Witness ==
  \E c1, c2 \in Callers :
    /\ Component(c1) = "page" /\ Component(c2) = "sidebar"
    /\ pc[c1] = "rendered" /\ pc[c2] = "rendered"
    /\ gens[awaited[c1]].st = "rejected"
    /\ gens[awaited[c2]].st = "rejected"

\* C9: in every produced response pathology_deltas is null for a patient with
\* no structured pathology report and an empty sequence for a patient with
\* exactly one.
C9_DeltasMatchReportCount ==
  \A g \in GenIds :
    gens[g].gen = "resolved" =>
      LET d == gens[g].result.investigations.pathology_deltas
          n == gens[g].patient.nPathologyDetails
      IN /\ n = 0 => d.tag = "null"
         /\ n = 1 => (d.tag = "value" /\ d.val = <<>>)
         /\ n >= 2 => d.tag \in { "null", "value" }

C9_Witness ==
  \E g \in GenIds :
    /\ gens[g].gen = "resolved"
    /\ gens[g].source = "fallback"
    /\ gens[g].patient.nPathologyDetails = 1

\* The tracked fields of two reports differ: a scalar field, or an IHC marker
\* among the given ones.
ScalarFields == { "grade", "tumorSize", "margins", "lvi", "pni", "lymphNodes" }
TrackedDiffer(latest, previous, markers) ==
  \/ \E f \in ScalarFields : latest[f] # previous[f]
  \/ \E m \in markers : Lookup(latest.ihcPanel, m) # Lookup(previous.ihcPanel, m)
AllMarkers(latest, previous) ==
  { latest.ihcPanel[i][1] : i \in 1 .. Len(latest.ihcPanel) }
  \cup { previous.ihcPanel[i][1] : i \in 1 .. Len(previous.ihcPanel) }
ComparedMarkers(latest, previous) ==
  LET merged == previous.ihcPanel \o
                  SelectSeq(latest.ihcPanel, LAMBDA pr : ~HasKey(previous.ihcPanel, pr[1]))
  IN { merged[i][1] : i \in 1 .. Len(merged) } \ { merged[i][1] : i \in 7 .. Len(merged) }

LocalDeltasUsed ==
  /\ pvOut.phase = "rendered"
  /\ (pvIn.aiDeltas.tag # "value" \/ pvIn.aiDeltas.val = <<>>)

\* C10 (as claimed): the delta list is empty iff fewer than two reports exist
\* or no tracked field, any IHC marker included, differs between the latest
\* and the previous report.
C10_EmptyIffNoFieldDiffers ==
  LocalDeltasUsed =>
    ( pvOut.structuralDeltas = <<>>
      <=> ( \/ Len(pvOut.reports) < 2
            \/ ~TrackedDiffer(pvOut.reports[1], pvOut.reports[2],
                              AllMarkers(pvOut.reports[1], pvOut.reports[2])) ) )

\* C10 (amended): a render of a mounted view with zero, one or several
\* structured reports ends rendered, and the locally generated delta
\* list is empty iff fewer than two reports exist or neither a scalar tracked
\* field nor one of the first six IHC markers of the merged panel differs.
C10_EmptyIffNoComparedFieldDiffers ==
  /\ [][pvOut.phase = "mounted" => pvOut'.phase = "rendered" /\ pvOut'.reports # <<>>]_vars
  /\ [](LocalDeltasUsed =>
         ( pvOut.structuralDeltas = <<>>
           <=> ( \/ Len(pvOut.reports) < 2
                 \/ ~TrackedDiffer(pvOut.reports[1], pvOut.reports[2],
                                   ComparedMarkers(pvOut.reports[1], pvOut.reports[2])) ) ))

C10_Witness ==
  /\ LocalDeltasUsed
  /\ Len(pvOut.reports) = 2
  /\ pvOut.structuralDeltas = <<>>
  /\ Lookup(pvOut.reports[1].ihcPanel, "TTF-1") # Lookup(pvOut.reports[2].ihcPanel, "TTF-1")

\* String.prototype.toLowerCase on the wordings that occur.
toLowerCase(value) ==
  CASE value = "G2" -> "g2"
    [] value = "G3" -> "g3"
    [] value = "Grade 2" -> "grade 2"
    [] value = "Grade 3" -> "grade 3"
    [] value = "N0" -> "n0"
    [] value = "N1 positive" -> "n1 positive"
    [] value = "Not graded" -> "not graded"
    [] value = "Not measured" -> "not measured"
    [] value = "Not assessed" -> "not assessed"
    [] value = "Not documented" -> "not documented"
    [] value = "Not reported" -> "not reported"
    [] OTHER -> value

SameNumber(old, new) ==
  /\ numberFromString(old) # <<>>
  /\ numberFromString(old) = numberFromString(new)

LocalDeltas == IF LocalDeltasUsed THEN pvOut.structuralDeltas ELSE <<>>

\* C11: every delta of the local comparator has old_value different from
\* new_value, also when compared without regard to case and, for the tumor
\* size, as numbers.
C11_DeltaValuesDiffer ==
  \A i \in 1 .. Len(LocalDeltas) :
    LET d == LocalDeltas[i]
    IN /\ d.old_value # d.new_value
       /\ toLowerCase(d.old_value) # toLowerCase(d.new_value)
       /\ d.marker = "Tumor size" => ~SameNumber(d.old_value, d.new_value)

C11_Witness ==
  \E i \in 1 .. Len(LocalDeltas) :
    /\ LocalDeltas[i].marker = "Grade"
    /\ LocalDeltas[i].old_value = "g2"
    /\ LocalDeltas[i].new_value = "G2"

\* The grade a wording states, as a pathologist reads it.
StatedGrade(grade) ==
  CASE grade \in { "G2", "g2", "Grade 2" } -> 2
    [] grade \in { "G3", "g3", "Grade 3" } -> 3
    [] OTHER -> 0

\* The latest report is dated later than the previous one, states a higher
\* grade, and the margins went from negative to positive.
GradeUpMarginsPositive ==
  /\ LocalDeltasUsed
  /\ Len(pvOut.reports) >= 2
  /\ \A i \in 1 .. 2 : pvOut.reports[i].rawDate # "" /\ ~DateIsNaN(pvOut.reports[i].rawDate)
  /\ DateParse(pvOut.reports[1].rawDate) > DateParse(pvOut.reports[2].rawDate)
  /\ StatedGrade(pvOut.reports[2].grade) > 0
  /\ StatedGrade(pvOut.reports[1].grade) > StatedGrade(pvOut.reports[2].grade)
  /\ pvOut.reports[2].margins = "negative"
  /\ pvOut.reports[1].margins = "positive"

\* C12: when the later report has the higher grade and margins went from
\* negative to positive, the first delta is the Grade delta (old = earlier
\* grade, new = later grade) with trend "worsening", a Margins delta with
\* trend "worsening" follows it, and the narrative has a clause about the
\* grade and one about the margins.
C12_GradeAndMarginsWorsening ==
  GradeUpMarginsPositive =>
    /\ Len(pvOut.structuralDeltas) >= 2
    /\ pvOut.structuralDeltas[1] =
         PathologyDelta("Grade", pvOut.reports[2].grade, pvOut.reports[1].grade, "worsening")
    /\ \E j \in 2 .. Len(pvOut.structuralDeltas) :
         pvOut.structuralDeltas[j] = PathologyDelta("Margins", "negative", "positive", "worsening")
    /\ \E k \in 1 .. Len(pvOut.comparison) : pvOut.comparison[k].label = "Grade"
    /\ \E k \in 1 .. Len(pvOut.comparison) : pvOut.comparison[k].label = "Margins"

C12_Witness ==
  /\ GradeUpMarginsPositive
  /\ pvOut.reports[2].grade = "Grade 2"
  /\ pvOut.reports[1].grade = "Grade 3"
  /\ pvOut.structuralDeltas[1].trend = "stable"

HasCalendarDate(report) == report.rawDate # "" /\ ~DateIsNaN(report.rawDate)

\* C13: the reports a comparison reads are ordered newest-first: dated
\* reports by descending date, and every report whose date is missing or is
\* no date after all dated ones.
C13_NewestFirst ==
  pvOut.phase = "rendered" =>
    \A i, j \in 1 .. Len(pvOut.reports) :
      i < j =>
        /\ (HasCalendarDate(pvOut.reports[i]) /\ HasCalendarDate(pvOut.reports[j]))
             => DateParse(pvOut.reports[i].rawDate) >= DateParse(pvOut.reports[j].rawDate)
        /\ HasCalendarDate(pvOut.reports[j]) => HasCalendarDate(pvOut.reports[i])

C13_Witness ==
  /\ pvOut.phase = "rendered"
  /\ Len(pvOut.reports) = 2
  /\ pvOut.reports[1].rawDate = "pending"
  /\ pvOut.reports[2].rawDate = "2023-06-01"

\* The wordings that state involvement (of a margin, of vessels or nerves, of
\* nodes); negated wordings and placeholders state none.
StatesInvolvement(value) == value \in { "positive", "involved", "present", "N1 positive" }

PresenceMarkers ==
  { "Margins", "Lymphovascular invasion", "Perineural invasion", "Nodal status" }

\* C14: a delta of a presence field is "worsening" exactly when involvement is
\* absent in the previous report and present in the latest, and "improving"
\* exactly when it is present in the previous and absent in the latest.
C14_PresenceTrend ==
  \A i \in 1 .. Len(LocalDeltas) :
    LET d == LocalDeltas[i]
    IN d.marker \in PresenceMarkers =>
         /\ d.trend = "worsening"
              <=> (~StatesInvolvement(d.old_value) /\ StatesInvolvement(d.new_value))
         /\ d.trend = "improving"
              <=> (StatesInvolvement(d.old_value) /\ ~StatesInvolvement(d.new_value))

C14_Witness ==
  \E i \in 1 .. Len(LocalDeltas) :
    /\ LocalDeltas[i].marker = "Margins"
    /\ LocalDeltas[i].old_value = "negative"
    /\ LocalDeltas[i].new_value = "not involved"
    /\ LocalDeltas[i].trend = "worsening"

RowsKept == SelectSeq(csv, RowHasContent)

\* The numeric values of a biomarker series, oldest first.
NumericValues(series) ==
  LET numeric == SelectSeq(series, LAMBDA point : point.value # <<>>)
  IN [i \in 1 .. Len(numeric) |-> numeric[i].value[1]]

TrendStatements(summary) == SelectSeq(summary, LAMBDA st : st.kind = "trend")

RisingText == "Recently rising biomarkers suggest potential disease activity."
ResponseText == "Down-trending biomarkers align with treatment response."
StableText == "Tumor markers are stable without decisive directional shifts."

UnavailableText == "Tumor markers unavailable for trajectory assessment."

FallbackShown == consulted.status = "found" /\ consulted.insights # Null
TrendShown ==
  TrendStatements(consulted.insights.val.investigations.labs_summary.val)

TrueTokens == { << "y", "e", "s" >>, << "y" >>, << "t", "r", "u", "e" >> }
FalseTokens == { << "n", "o" >>, << "n" >>, << "f", "a", "l", "s", "e" >> }

ExpectedFlag(cell) ==
  IF Falsy(cell) THEN "null"
  ELSE LET token == toLowerCaseText(trim(cell.val))
       IN IF token \in TrueTokens THEN "true"
          ELSE IF token \in FalseTokens THEN "false"
          ELSE "null"

\* C16: a raw flag is normalized, without regard to case and surrounding
\* blanks, to true exactly for yes / y / true, to false exactly for
\* no / n / false, and to null for everything else.
C16_BooleanTokens ==
  loaded.status = "ok" =>
    \A i \in 1 .. Len(loaded.patients) :
      /\ loaded.patients[i].renalDysfunctionFlag = ExpectedFlag(RowsKept[i].renalCell)
      /\ loaded.patients[i].liverDysfunctionFlag = ExpectedFlag(RowsKept[i].liverCell)

C16_Witness ==
  /\ loaded.status = "ok"
  /\ \E i \in 1 .. Len(loaded.patients) :
       /\ RowsKept[i].renalCell = Val(<< "N", "o", "t", " ", "d", "o", "c", "u", "m", "e", "n", "t", "e", "d" >>)
       /\ loaded.patients[i].renalDysfunctionFlag = "false"

\* C17: a flag whose raw value is unrecognised is null, and for a null flag
\* neither the fallback safety status nor the organ badge of the context tab
\* says "Safe".
C17_NullFlagNeverSafe ==
  /\ loaded.status = "ok" =>
       \A i \in 1 .. Len(loaded.patients) :
         RowsKept[i].liverCell = Val(<< "U", "n", "k", "n", "o", "w", "n" >>) => loaded.patients[i].liverDysfunctionFlag = "null"
  /\ \A organ \in { "renal", "liver" } :
       LET flag == IF organ = "renal" THEN consulted.patient.renalDysfunctionFlag
                   ELSE consulted.patient.liverDysfunctionFlag
       IN (consulted.status = "found" /\ flag = "null") =>
            /\ consulted.insights # Null =>
                 consulted.insights.val.sidebar.safety_flags[organ] # "Safe"
            /\ consulted.organFlags # Null => consulted.organFlags.val[organ] # "Safe"

C17_Witness ==
  /\ consulted.status = "found"
  /\ consulted.patient.liverDysfunctionFlag = "null"
  /\ \E i \in 1 .. Len(RowsKept) : RowsKept[i].liverCell = Val(<< "U", "n", "k", "n", "o", "w", "n" >>)
  /\ consulted.insights # Null
  /\ consulted.insights.val.sidebar.safety_flags.liver = "Safe"

\* The cell is text that parses to an array.
ParsesToArray(cell) == cell.kind = "json" /\ cell.t = "array"

\* C18: whatever the embedded JSON columns hold, loading does not throw, and
\* a column that is no JSON or no array gives an empty collection.
C18_JsonDegradesToEmpty ==
  /\ loaded.status # "threw"
  /\ consulted.status # "threw"
  /\ loaded.status = "ok" =>
       \A i \in 1 .. Len(loaded.patients) :
         /\ ~ParsesToArray(RowsKept[i].timelineCell) => loaded.patients[i].treatmentTimeline = <<>>
         /\ ~ParsesToArray(RowsKept[i].biomarkerCell) => loaded.patients[i].biomarkerTrend = <<>>
         /\ ~ParsesToArray(RowsKept[i].pathologyCell) => loaded.patients[i].pathologyDetails = <<>>

C18_Witness ==
  /\ loaded.status = "threw"
  /\ \E i \in 1 .. Len(csv) : csv[i].timelineCell = JsonArray(<< ItemNull >>)

\* C19: every loaded patient has a non-empty patientId, no two loaded
\* patients share one, and getPatientById(id) returns a patient with that id.
C19_IdsNonEmptyAndUnique ==
  /\ loaded.status = "ok" =>
       /\ \A i \in 1 .. Len(loaded.patients) : loaded.patients[i].patientId # <<>>
       /\ \A i, j \in 1 .. Len(loaded.patients) :
            loaded.patients[i].patientId = loaded.patients[j].patientId => i = j
  /\ consulted.status = "found" => consulted.patient.patientId = consulted.id

C19_Witness ==
  /\ loaded.status = "ok"
  /\ Len(loaded.patients) = 2
  /\ loaded.patients[1].patientId = loaded.patients[2].patientId
  /\ loaded.patients[1].name # loaded.patients[2].name

\* The fields declared on the Patient type, as far as the rows modelled here
\* fill them.
DeclaredFields ==
  { "patientId", "name", "dateOfBirth", "birthDate", "renalDysfunctionFlag",
    "liverDysfunctionFlag", "pathologyDiagnosisText", "cea", "ca199",
    "treatmentTimeline", "biomarkerTrend", "pathologyDetails" }

\* patient[field] in JavaScript: undefined for a key the object does not have.
FieldValue(patient, field) ==
  IF field \in DOMAIN patient THEN Val(patient[field]) ELSE Undef

\* C20: every declared field of a mapped patient has a value, null included,
\* and is never undefined.
C20_NoFieldUndefined ==
  loaded.status = "ok" =>
    \A i \in 1 .. Len(loaded.patients) :
      \A field \in DeclaredFields : FieldValue(loaded.patients[i], field) # Undef

C20_Witness ==
  /\ loaded.status = "ok"
  /\ \E i \in 1 .. Len(loaded.patients) :
       /\ FieldValue(loaded.patients[i], "dateOfBirth") = Undef
       /\ FieldValue(loaded.patients[i], "name") # Undef

\* The first cell among the spellings of a column that holds text.
FirstNonEmpty(cells) ==
  LET filled == SelectSeq(cells, LAMBDA cell : ~Falsy(cell))
  IN IF filled = <<>> THEN Undef ELSE filled[1]

\* C21: bsa and bmi of a loaded patient come from the first spelling of the
\* column, in the order of the code, whose cell is not empty; a blank cell of
\* an earlier spelling does not hide a later one.
C21_FirstNonEmptySpellingWins ==
  loaded.status = "ok" =>
    \A i \in 1 .. Len(loaded.patients) :
      /\ loaded.patients[i].bsa = parseBsa(FirstNonEmpty(RowsKept[i].bsaCells))
      /\ loaded.patients[i].bmi = parseBmi(FirstNonEmpty(RowsKept[i].bmiCells))

C21_Witness ==
  /\ loaded.status = "ok"
  /\ \E i \in 1 .. Len(loaded.patients) :
       /\ RowsKept[i].bsaCells[1] = Val(<<>>)
       /\ RowsKept[i].bsaCells[2] = Val(Text_1_8)
       /\ loaded.patients[i].bsa = Null

\* The summary sent for a request that carried a patient.
SummaryGenerated == summaryCall.pc = "done" /\ summaryCall.status = 200

ViewOfKey(key) ==
  IF key = "p" THEN << "patient", "" >>
  ELSE IF key = "d" THEN << "diagnosis", "" >>
  ELSE IF key = "i" THEN << "investigations", "pathology" >>
  ELSE IF key = "r" THEN << "investigations", "radiology" >>
  ELSE << "investigations", "laboratory" >>

ViewKeys == { "p", "d", "i", "r", "l" }

\* The step is a key press of a view key that directly follows a press of "o"
\* (no other key press and no timer expiry in between).
ViewKeyAfterO ==
  /\ shortcuts.lastEvent.kind = "key" /\ shortcuts.lastEvent.key = "o"
  /\ shortcuts'.lastEvent.kind = "key" /\ shortcuts'.lastEvent.key \in ViewKeys

ViewSelected ==
  /\ shortcuts'.mainTab = ViewOfKey(shortcuts'.lastEvent.key)[1]
  /\ shortcuts'.investigationsPanel =
       IF ViewOfKey(shortcuts'.lastEvent.key)[2] # ""
       THEN ViewOfKey(shortcuts'.lastEvent.key)[2]
       ELSE shortcuts.investigationsPanel
  /\ shortcuts'.sequence = <<>>
  /\ ~shortcuts'.timeout

\* C23 (as claimed): from any tab state, a press of "o" directly followed
\* within 750 ms by p, d, i, r or l selects the view of that key and leaves
\* no pending sequence.
C23_OThenKeySelectsView ==
  [][ ViewKeyAfterO => ViewSelected ]_vars

\* C23 (amended): the same, for a press of "o" that found no pending
\* sequence.
C23_FreshOThenKeySelectsView ==
  [][ (ViewKeyAfterO /\ shortcuts.lastEvent.before = <<>>) => ViewSelected ]_vars

C23_Witness ==
  /\ shortcuts.lastEvent = KeyEvent("r", << "o" >>, << "o", "r" >>)
  /\ shortcuts.mainTab = "investigations"
  /\ shortcuts.investigationsPanel = "radiology"
  /\ shortcuts.sequence = <<>>

\* The step handles a key press.
KeyStep ==
  /\ shortcuts'.lastEvent # shortcuts.lastEvent
  /\ shortcuts'.lastEvent.kind = "key"

\* The step is the expiry of the 750 ms timer.
TimeoutStep ==
  /\ shortcuts'.lastEvent # shortcuts.lastEvent
  /\ shortcuts'.lastEvent.kind = "timeout"

SecondKeys == { "p", "d", "i", "r", "l", "e", "b" }

\* C25: the pending sequence is always empty or ["o"], and is ["o"] exactly
\* while the 750 ms timer runs; a key press leaves ["o"] pending only when it
\* is an "o" that found nothing pending; the timer expiry clears the
\* sequence; a handler runs only for a second key whose preceding key press
\* was that pending "o", with the timer still running, and no other key
\* press changes the tabs or dispatches an action.
C25_PendingIsEmptyOrO ==
  /\ [](/\ shortcuts.sequence \in { <<>>, << "o" >> }
        /\ shortcuts.timeout <=> (shortcuts.sequence = << "o" >>))
  /\ [][ (KeyStep =>
            /\ shortcuts'.sequence =
                 IF shortcuts'.lastEvent.key = "o" /\ shortcuts.sequence = <<>>
                 THEN << "o" >> ELSE <<>>
            /\ (shortcuts'.lastEvent.fired # <<>>) =>
                 ( /\ shortcuts.lastEvent.kind = "key"
                   /\ shortcuts.lastEvent.key = "o"
                   /\ shortcuts.lastEvent.before = <<>>
                   /\ shortcuts.timeout
                   /\ shortcuts'.lastEvent.key \in SecondKeys
                   /\ shortcuts'.lastEvent.fired = << "o", shortcuts'.lastEvent.key >> )
            /\ (shortcuts'.lastEvent.fired = <<>>) =>
                 ( /\ shortcuts'.mainTab = shortcuts.mainTab
                   /\ shortcuts'.investigationsPanel = shortcuts.investigationsPanel
                   /\ shortcuts'.dispatched = shortcuts.dispatched ))
         /\ (TimeoutStep => shortcuts'.sequence = <<>>) ]_vars

C25_Witness ==
  /\ shortcuts.lastEvent = KeyEvent("x", << "o" >>, <<>>)
  /\ shortcuts.sequence = <<>>
  /\ ~shortcuts.timeout

\* The place of a locally generated delta in the fixed order of fields; the
\* IHC deltas come last and are about the markers compared.
PriorityOf(marker, latest, previous) ==
  IF marker = "Grade" THEN 1
  ELSE IF marker = "Tumor size" THEN 2
  ELSE IF marker = "Margins" THEN 3
  ELSE IF marker = "Lymphovascular invasion" THEN 4
  ELSE IF marker = "Perineural invasion" THEN 5
  ELSE IF marker = "Nodal status" THEN 6
  ELSE IF marker \in { "IHC / " \o m : m \in ComparedMarkers(latest, previous) } THEN 7
  ELSE 0

\* C24: the delta table never shows more than five entries, from the model
\* or from the local comparator, and shows the first entries of the list;
\* the local list is in the order Grade, Tumor size, Margins, Lymphovascular
\* invasion, Perineural invasion, Nodal status, then IHC markers out of the
\* at most six compared, each field at most once.
C24_ShownDeltasCappedAndOrdered ==
  pvOut.phase = "rendered" =>
    /\ Len(pvOut.shown) <= 5
    /\ Len(pvOut.shown) <= Len(pvOut.structuralDeltas)
    /\ pvOut.shown = SubSeq(pvOut.structuralDeltas, 1, Len(pvOut.shown))
    /\ Len(pvOut.shown) < 5 => pvOut.shown = pvOut.structuralDeltas
    /\ (LocalDeltasUsed /\ Len(pvOut.reports) > 1) =>
         LET deltas == pvOut.structuralDeltas
             rank(i) == PriorityOf(deltas[i].marker, pvOut.reports[1], pvOut.reports[2])
         IN /\ \A i \in 1 .. Len(deltas) : rank(i) > 0
            /\ \A i, j \in 1 .. Len(deltas) :
                 i < j => /\ rank(i) <= rank(j)
                          /\ deltas[i].marker # deltas[j].marker
            /\ Cardinality({ i \in 1 .. Len(deltas) : rank(i) = 7 }) <= 6

C24_Witness ==
  /\ LocalDeltasUsed
  /\ Len(pvOut.structuralDeltas) > 5
  /\ Len(pvOut.shown) = 5
  /\ pvOut.shown[1].marker = "Grade"
  /\ pvOut.shown[5].marker = "Perineural invasion"

\* The invocations whose summary fetch is under way.
InFlight == { i \in 1 .. Len(pdf.invocations) : pdf.invocations[i].at = "fetching" }

\* C26: at most one generation is in flight: an invocation made while another
\* has not finished starts no second fetch, also before the component has
\* rendered again.
C26_OneGenerationInFlight ==
  Cardinality(InFlight) <= 1

C26_Witness ==
  /\ Cardinality(InFlight) = 2
  /\ pdf.fetches = 2
  /\ ~pdf.rendered

\* C27: whenever isGenerating is true it becomes false again, however the
\* fetch and the build of the document end.
C27_GeneratingEventuallyEnds ==
  pdf.isGenerating ~> ~pdf.isGenerating

C27_Witness ==
  /\ pdf.isGenerating
  /\ InFlight = {}
  /\ \E i \in 1 .. Len(pdf.invocations) : pdf.invocations[i].at = "rejected"

\* C28: a resolved promise, of the model result or of the fallback, stays
\* the map entry of its patient id with its result unchanged, and a call for
\* that id made afterwards, whatever patient data it passes, gets that
\* promise and starts no generation and no LLM request.
C28_ResolvedEntryIsKept ==
  /\ [](\A g \in GenIds : gens[g].st = "resolved" => insightPromises[IdOf(g)] = g)
  /\ [][ \A g \in GenIds : gens[g].st = "resolved" =>
           /\ gens'[g] = gens[g]
           /\ \A c \in Callers :
                (pc[c] = "idle" /\ pc'[c] = "awaiting" /\ asked'[c] = IdOf(g)) =>
                  (awaited'[c] = g /\ gens' = gens) ]_vars

C28_Witness ==
  /\ Len(gens) = 1
  /\ gens[1].st = "resolved"
  /\ gens[1].source = "fallback"
  /\ gens[1].patient = NullPatient
  /\ \A c \in Callers : pc[c] = "rendered" /\ awaited[c] = 1 /\ asked[c] = "P1"

\* C29: the insights displayed are those of the selected patient, whenever
\* the selection changed and in whatever order the answers arrive.
C29_InsightsOfSelectedPatient ==
  inspector.insights # "" => inspector.insights = inspector.selectedId

C29_Witness ==
  /\ inspector.selectedId = "P2"
  /\ inspector.insights = "P1"
  /\ \A i \in 1 .. Len(inspector.requests) : inspector.requests[i].at # "pending"

\* The statements of the labs summary shown, by kind.
LabsSummaryShown == consulted.insights.val.investigations.labs_summary.val
KindsShown == { LabsSummaryShown[i].kind : i \in 1 .. Len(LabsSummaryShown) }

\* C30: the deterministic labs summary has at most three sentences, among
\* them the renal statement, the hematology statement and the tumour-marker
\* trajectory statement.
C30_LabsSummaryHasThreeTopics ==
  FallbackShown =>
    /\ Len(LabsSummaryShown) <= 3
    /\ { "renal", "heme", "trend" } \subseteq KindsShown

C30_Witness ==
  /\ FallbackShown
  /\ consulted.patient.liverDysfunctionFlag = "true"
  /\ consulted.patient.renalDysfunctionFlag = "false"
  /\ KindsShown = { "renal", "liver", "heme" }

====
